---------------------------- MODULE Spec2Model ----------------------------
(***************************************************************************)
(* Letter: a regular-expression Tokenizer and a recursive descent Parser.  *)
(*                                                                         *)
(* Source text is a sequence of one-character strings.  A JavaScript       *)
(* object is a record, an array is a sequence.  JavaScript's null is       *)
(* `null' where an object is expected (a token, a node, an error) and      *)
(* `nullType' where a string is expected (a rule's token type).  A call    *)
(* that can throw returns a record with a `thrown' field: null when it     *)
(* returned normally, the error object otherwise.                          *)
(***************************************************************************)
EXTENDS Integers, Sequences, FiniteSets, TLC

null == [null |-> TRUE]

nullType == "<null>"

IsNull(x) == x = null

(***************************************************************************)
(* Character classes of the regular expressions, over the characters the   *)
(* model draws its inputs from.                                            *)
(***************************************************************************)
Digits == {"0", "1", "2", "3", "4", "5", "6", "7", "8", "9"}

Letters ==
    {"a", "b", "c", "d", "e", "f", "g", "h", "i", "j", "k", "l", "m",
     "n", "o", "p", "q", "r", "s", "t", "u", "v", "w", "x", "y", "z",
     "A", "B", "C", "D", "E", "F", "G", "H", "I", "J", "K", "L", "M",
     "N", "O", "P", "Q", "R", "S", "T", "U", "V", "W", "X", "Y", "Z"}

\* \w
WordChars == Letters \cup Digits \cup {"_"}

\* \s
WhiteSpace == {" ", "\t", "\n", "\r", "\f"}

\* what . does not match
LineTerminators == {"\n", "\r"}

\* the slice that starts at the beginning of the text whatever the cursor
sliceAll(string, cursor) == string

\* string.slice(cursor): the text from the 0-based offset cursor to the end
slice(string, cursor) == SubSeq(string, cursor + 1, Len(string))

\* the least member of a non-empty set of numbers
Min(S) == CHOOSE m \in S : \A k \in S : m <= k

\* the number of characters of s, from the 1-based index i on, that lie in S
SpanIn(S, s, i) ==
    LET stops == {j \in i..Len(s) : s[j] \notin S}
    IN  IF stops = {} THEN Len(s) - i + 1 ELSE Min(stops) - i

\* the number of characters of s, from the 1-based index i on, that lie outside S
SpanNotIn(S, s, i) ==
    LET stops == {j \in i..Len(s) : s[j] \in S}
    IN  IF stops = {} THEN Len(s) - i + 1 ELSE Min(stops) - i

\* s starts with the characters of lit
StartsWith(s, lit) ==
    /\ Len(s) >= Len(lit)
    /\ \A i \in 1..Len(lit) : s[i] = lit[i]

\* \b between the characters i and i + 1 of s (i = 0: before the first one)
WordBoundary(s, i) ==
    (i >= 1 /\ i <= Len(s) /\ s[i] \in WordChars)
        # (i + 1 <= Len(s) /\ s[i + 1] \in WordChars)

\* the 1-based index of the first "*/" of s at or after index i, 0 if none
FindCommentEnd(s, i) ==
    LET ends == {j \in i..(Len(s) - 1) : s[j] = "*" /\ s[j + 1] = "/"}
    IN  IF ends = {} THEN 0 ELSE Min(ends)

NoMatch == 0 - 1

(***************************************************************************)
(* regexp.exec(string) for the anchored patterns of the rule table: the    *)
(* length of matched[0], or NoMatch when exec returns null.                *)
(***************************************************************************)
\* /^\s+/
ReWhitespace(s) ==
    LET n == SpanIn(WhiteSpace, s, 1) IN IF n > 0 THEN n ELSE NoMatch

\* /^\/\/.*/
ReLineComment(s) ==
    IF StartsWith(s, <<"/", "/">>)
    THEN 2 + SpanNotIn(LineTerminators, s, 3)
    ELSE NoMatch

\* the block comment that ends on the line it starts on
ReBlockCommentOneLine(s) ==
    IF StartsWith(s, <<"/", "*">>)
    THEN LET e == FindCommentEnd(s, 3)
         IN  IF e > 0 /\ e - 3 <= SpanNotIn(LineTerminators, s, 3) THEN e + 1 ELSE NoMatch
    ELSE NoMatch

\* /^\/\*[\s\S]*?\*\//
ReBlockComment(s) ==
    IF StartsWith(s, <<"/", "*">>)
    THEN LET e == FindCommentEnd(s, 3) IN IF e > 0 THEN e + 1 ELSE NoMatch
    ELSE NoMatch

\* /^x/ for a literal text x
ReLiteral(lit, s) == IF StartsWith(s, lit) THEN Len(lit) ELSE NoMatch

\* the relational pattern without its optional =
ReRelationalOne(s) ==
    IF Len(s) >= 1 /\ s[1] \in {"<", ">"} THEN 1 ELSE NoMatch

\* /^[<>]=?/
ReRelational(s) ==
    IF Len(s) >= 1 /\ s[1] \in {"<", ">"}
    THEN (IF Len(s) >= 2 /\ s[2] = "=" THEN 2 ELSE 1)
    ELSE NoMatch

\* /^[=!]=/
ReEquality(s) ==
    IF Len(s) >= 2 /\ s[1] \in {"=", "!"} /\ s[2] = "=" THEN 2 ELSE NoMatch

\* the keyword pattern without the \b after the word
ReKeywordOpen(word, s) ==
    IF WordBoundary(s, 0) /\ StartsWith(s, word) THEN Len(word) ELSE NoMatch

\* /^\bword\b/
ReKeyword(word, s) ==
    IF WordBoundary(s, 0) /\ StartsWith(s, word) /\ WordBoundary(s, Len(word))
    THEN Len(word)
    ELSE NoMatch

\* /^[\*\\/\+\-]=/
ReComplexAssign(s) ==
    IF Len(s) >= 2 /\ s[1] \in {"*", "\\", "/", "+", "-"} /\ s[2] = "="
    THEN 2
    ELSE NoMatch

\* /^[+\-]/
ReAdditive(s) == IF Len(s) >= 1 /\ s[1] \in {"+", "-"} THEN 1 ELSE NoMatch

\* /^[*\/]/
ReMultiplicative(s) == IF Len(s) >= 1 /\ s[1] \in {"*", "/"} THEN 1 ELSE NoMatch

\* /^\d+/
ReNumber(s) == LET n == SpanIn(Digits, s, 1) IN IF n > 0 THEN n ELSE NoMatch

\* /^"[^"]*"/ and /^'[^']*'/, q the quote character
ReString(q, s) ==
    IF Len(s) >= 1 /\ s[1] = q
    THEN LET n == SpanNotIn({q}, s, 2)
         IN  IF n + 2 <= Len(s) /\ s[n + 2] = q THEN n + 2 ELSE NoMatch
    ELSE NoMatch

\* /^\w+/
ReIdentifier(s) ==
    LET n == SpanIn(WordChars, s, 1) IN IF n > 0 THEN n ELSE NoMatch

Rule(re, arg, tokenType) == [regexp |-> [re |-> re, arg |-> arg], tokenType |-> tokenType]

(***************************************************************************)
(* The Tokenizer spec: the ordered rule table, [regexp, tokenType].        *)
(***************************************************************************)
TokenizerSpec ==
    << Rule("whitespace", <<>>, nullType),
       Rule("lineComment", <<>>, nullType),
       Rule("blockComment", <<>>, nullType),
       Rule("literal", <<";">>, ";"),
       Rule("literal", <<"{">>, "{"),
       Rule("literal", <<"}">>, "}"),
       Rule("literal", <<"(">>, "("),
       Rule("literal", <<")">>, ")"),
       Rule("literal", <<"[">>, "["),
       Rule("literal", <<"]">>, "]"),
       Rule("literal", <<",">>, ","),
       Rule("literal", <<".">>, "."),
       Rule("relational", <<>>, "RELATIONAL_OPERATOR"),
       Rule("equality", <<>>, "EQUALITY_OPERATOR"),
       Rule("literal", <<"&", "&">>, "LOGICAL_AND"),
       Rule("literal", <<"|", "|">>, "LOGICAL_OR"),
       Rule("literal", <<"!">>, "LOGICAL_NOT"),
       Rule("keyword", <<"l", "e", "t">>, "let"),
       Rule("keyword", <<"i", "f">>, "if"),
       Rule("keyword", <<"e", "l", "s", "e">>, "else"),
       Rule("keyword", <<"t", "r", "u", "e">>, "true"),
       Rule("keyword", <<"f", "a", "l", "s", "e">>, "false"),
       Rule("keyword", <<"n", "u", "l", "l">>, "null"),
       Rule("keyword", <<"c", "l", "a", "s", "s">>, "class"),
       Rule("keyword", <<"t", "h", "i", "s">>, "this"),
       Rule("keyword", <<"e", "x", "t", "e", "n", "d", "s">>, "extends"),
       Rule("keyword", <<"s", "u", "p", "e", "r">>, "super"),
       Rule("keyword", <<"n", "e", "w">>, "new"),
       Rule("keyword", <<"w", "h", "i", "l", "e">>, "while"),
       Rule("keyword", <<"d", "o">>, "do"),
       Rule("keyword", <<"f", "o", "r">>, "for"),
       Rule("keyword", <<"d", "e", "f">>, "def"),
       Rule("keyword", <<"r", "e", "t", "u", "r", "n">>, "return"),
       Rule("literal", <<"=">>, "SIMPLE_ASSIGN"),
       Rule("complexAssign", <<>>, "COMPLEX_ASSIGN"),
       Rule("additive", <<>>, "ADDITIVE_OPERATOR"),
       Rule("multiplicative", <<>>, "MULTIPLICATIVE_OPERATOR"),
       Rule("number", <<>>, "NUMBER"),
       Rule("string", <<"\"">>, "STRING"),
       Rule("string", <<"'">>, "STRING"),
       Rule("identifier", <<>>, "IDENTIFIER") >>

\* regexp.exec(string): the length of the match, or NoMatch
RegExpExec(regexp, string) ==
    CASE regexp.re = "whitespace" -> ReWhitespace(string)
      [] regexp.re = "lineComment" -> ReLineComment(string)
      [] regexp.re = "blockComment" -> ReBlockComment(string)
      [] regexp.re = "literal" -> ReLiteral(regexp.arg, string)
      [] regexp.re = "relational" -> ReRelational(string)
      [] regexp.re = "equality" -> ReEquality(string)
      [] regexp.re = "keyword" -> ReKeyword(regexp.arg, string)
      [] regexp.re = "complexAssign" -> ReComplexAssign(string)
      [] regexp.re = "additive" -> ReAdditive(string)
      [] regexp.re = "multiplicative" -> ReMultiplicative(string)
      [] regexp.re = "number" -> ReNumber(string)
      [] regexp.re = "string" -> ReString(regexp.arg[1], string)
      [] regexp.re = "identifier" -> ReIdentifier(string)

(***************************************************************************)
(* Errors.  Both classes throw JavaScript's built-in SyntaxError; reading  *)
(* a property of null throws a TypeError.                                  *)
(***************************************************************************)
SyntaxError(message, actual, expected) ==
    [name |-> "SyntaxError", message |-> message, actual |-> actual, expected |-> expected]

TypeError(property) ==
    [name |-> "TypeError", message |-> "Cannot read properties of null", property |-> property]

(***************************************************************************)
(* Tokenizer: an object [_string, _cursor].                                *)
(***************************************************************************)
\* init leaving the cursor after the first character
TokenizerInitAtOne(string) == [_string |-> string, _cursor |-> 1]

TokenizerInit(string) == [_string |-> string, _cursor |-> 0]

isEOF(tk) == tk._cursor = Len(tk._string)

hasMoreTokens(tk) == tk._cursor < Len(tk._string)

\* _match once regexp.exec(string) has matched n characters (or NoMatch)
_matchExec(tk, string, n) ==
    IF n = NoMatch
    THEN [tk |-> tk, matched |-> <<nullType>>, isNull |-> TRUE]
    ELSE [tk |-> [tk EXCEPT !._cursor = tk._cursor + n],
          matched |-> SubSeq(string, 1, n), isNull |-> FALSE]

\* _match: the matched text (or nullType) and the tokenizer with its cursor advanced
_match(tk, regexp, string) == _matchExec(tk, string, RegExpExec(regexp, string))

\* the for loop over the rules: the index of the first rule whose regexp
\* matches string, 0 when the loop ends without a match
FirstOf(matching) == IF matching = {} THEN 0 ELSE Min(matching)

FirstMatch(string) ==
    FirstOf({i \in DOMAIN TokenizerSpec :
                RegExpExec(TokenizerSpec[i].regexp, string) # NoMatch})

\* getNextToken: [tk, token, thrown]
RECURSIVE getNextToken(_)

\* the body of the for loop at the rule whose regexp matched: m is what
\* _match returned
getNextTokenMatched(tokenType, m) ==
    IF tokenType = nullType
    THEN getNextToken(m.tk)
    ELSE [tk |-> m.tk, token |-> [type |-> tokenType, value |-> m.matched],
          thrown |-> null]

\* the for loop, i the index FirstMatch gives for string
getNextTokenFor(tk, string, i) ==
    IF i = 0
    THEN [tk |-> tk, token |-> null,
          thrown |-> SyntaxError("Unexpected token", <<string[1]>>, nullType)]
    ELSE getNextTokenMatched(TokenizerSpec[i].tokenType,
                             _match(tk, TokenizerSpec[i].regexp, string))

\* getNextToken with string the text from the cursor on
getNextTokenIn(tk, string) == getNextTokenFor(tk, string, FirstMatch(string))

getNextToken(tk) ==
    IF ~hasMoreTokens(tk)
    THEN [tk |-> tk, token |-> null, thrown |-> null]
    ELSE getNextTokenIn(tk, slice(tk._string, tk._cursor))

(***************************************************************************)
(* Parser.  The state threaded through the productions is the Parser       *)
(* object (_string, _tokenizer, _lookahead) with the exception in flight   *)
(* (thrown) and the record of the _eat calls made so far (log).  Every     *)
(* production returns [st, ret, failed]: the state it leaves, the value it *)
(* returns, and whether it threw instead of returning (ret is then null).  *)
(***************************************************************************)
Ret(st, ret) == [st |-> st, ret |-> ret, failed |-> FALSE]

Throw(st, error) == [st |-> [st EXCEPT !.thrown = error], ret |-> null, failed |-> TRUE]

\* this._lookahead.type with this._lookahead null
NullLookahead(st) == IsNull(st._lookahead)

ThrowTypeError(st) == Throw(st, TypeError("type"))

\* Number(token.value) for a text of decimal digits
DigitValue(c) ==
    CASE c = "0" -> 0 [] c = "1" -> 1 [] c = "2" -> 2 [] c = "3" -> 3
      [] c = "4" -> 4 [] c = "5" -> 5 [] c = "6" -> 6 [] c = "7" -> 7
      [] c = "8" -> 8 [] c = "9" -> 9

RECURSIVE Number(_)
Number(value) ==
    IF value = <<>> THEN 0
    ELSE 10 * Number(SubSeq(value, 1, Len(value) - 1)) + DigitValue(value[Len(value)])

\* the entry _eat leaves in the log
EatEntry(st, tokenType, after, outcome, ret) ==
    [tokenType |-> tokenType,
     lookahead |-> st._lookahead, cursor |-> st._tokenizer._cursor,
     lookaheadAfter |-> after._lookahead, cursorAfter |-> after._tokenizer._cursor,
     outcome |-> outcome, thrown |-> after.thrown, ret |-> ret]

\* _eat leaving the parser as `after'
_eatLeave(st, tokenType, after, outcome, ret) ==
    [st |-> [after EXCEPT !.log = Append(st.log, EatEntry(st, tokenType, after, outcome, ret))],
     ret |-> ret, failed |-> outcome # "return"]

\* _eat throwing after it has dropped the lookahead
_eatThrowDroppingLookahead(st, tokenType, error) ==
    _eatLeave(st, tokenType, [st EXCEPT !.thrown = error, !._lookahead = null], "throw", null)

\* _eat throwing error
_eatThrow(st, tokenType, error) ==
    _eatLeave(st, tokenType, [st EXCEPT !.thrown = error], "throw", null)

\* _eat that drops the token it pulled and keeps the following one
_eatAdvanceTwice(st, tokenType, next) ==
    IF ~IsNull(next.thrown)
    THEN _eatLeave(st, tokenType,
                   [st EXCEPT !._tokenizer = next.tk, !.thrown = next.thrown],
                   "lexer", null)
    ELSE _eatLeave(st, tokenType,
                   [st EXCEPT !._tokenizer = getNextToken(next.tk).tk,
                              !._lookahead = getNextToken(next.tk).token],
                   "return", st._lookahead)

\* Advance to next token: next is what getNextToken gave
_eatAdvance(st, tokenType, next) ==
    IF ~IsNull(next.thrown)
    THEN _eatLeave(st, tokenType,
                   [st EXCEPT !._tokenizer = next.tk, !.thrown = next.thrown],
                   "lexer", null)
    ELSE _eatLeave(st, tokenType,
                   [st EXCEPT !._tokenizer = next.tk, !._lookahead = next.token],
                   "return", st._lookahead)

\* Expects a token of a given type.
_eat(st, tokenType) ==
    IF IsNull(st._lookahead)
    THEN _eatThrow(st, tokenType,
                   SyntaxError("Unexpected end of input", <<>>, tokenType))
    ELSE IF st._lookahead.type # tokenType
    THEN _eatThrow(st, tokenType,
                   SyntaxError("Unexpected token", st._lookahead.value, tokenType))
    ELSE _eatAdvance(st, tokenType, getNextToken(st._tokenizer))

_isLiteral(tokenType) ==
    tokenType = "NUMBER" \/ tokenType = "STRING" \/ tokenType = "true"
        \/ tokenType = "false" \/ tokenType = "null"

_isAssignmentOperator(tokenType) ==
    tokenType = "SIMPLE_ASSIGN" \/ tokenType = "COMPLEX_ASSIGN"

\* the check that takes every node for a target
_checkAnyAssignmentTarget(st, node) == Ret(st, node)


_checkValidAssignmentTarget(st, node) ==
    IF node.type = "Identifier" \/ node.type = "MemberExpression"
    THEN Ret(st, node)
    ELSE Throw(st, SyntaxError("Invalid left-hand side in assignment expression",
                               <<>>, nullType))

\* this(st, method, argument) is the call this.method(argument) on the Parser
\* st; the operators named ...While are the while and do-while loops
RECURSIVE this(_, _, _),
          StatementListWhile(_, _, _),
          LogicalORExpressionWhile(_),
          LogicalANDExpressionWhile(_),
          EqualityExpressionWhile(_),
          RelationalExpressionWhile(_),
          AdditiveExpressionWhile(_),
          MultiplicativeExpressionWhile(_),
          MemberExpressionWhile(_)

(***************************************************************************)
(* The productions.  Each is entered with nothing thrown; a call that      *)
(* threw (its result is marked failed) ends the production at once with    *)
(* that call's result: the exception propagates, and the calls happen in   *)
(* the order of the code.                                                  *)
(***************************************************************************)
\* Identifier : IDENTIFIER
Identifier(st) ==
    LET name == this(st, "_eat", "IDENTIFIER")
    IN  IF name.failed THEN name
        ELSE Ret(name.st, [type |-> "Identifier", name |-> name.ret.value])

\* EmptyStatement : ';'
EmptyStatement(st) ==
    LET e1 == this(st, "_eat", ";")
    IN  IF e1.failed THEN e1 ELSE Ret(e1.st, [type |-> "EmptyStatement"])

\* ThisExpression : 'this'
ThisExpression(st) ==
    LET e1 == this(st, "_eat", "this")
    IN  IF e1.failed THEN e1 ELSE Ret(e1.st, [type |-> "ThisExpression"])

\* Super : 'super'
Super(st) ==
    LET e1 == this(st, "_eat", "super")
    IN  IF e1.failed THEN e1 ELSE Ret(e1.st, [type |-> "Super"])

\* NumericLiteral : NUMBER
NumericLiteral(st) ==
    LET token == this(st, "_eat", "NUMBER")
    IN  IF token.failed THEN token
        ELSE Ret(token.st, [type |-> "NumericLiteral", value |-> Number(token.ret.value)])

\* StringLiteral : STRING, token.value.slice(1, -1)
StringLiteral(st) ==
    LET token == this(st, "_eat", "STRING")
    IN  IF token.failed THEN token
        ELSE Ret(token.st,
                 [type |-> "StringLiteral",
                  value |-> SubSeq(token.ret.value, 2, Len(token.ret.value) - 1)])

\* BooleanLiteral : TRUE | FALSE
BooleanLiteral(st, value) ==
    LET e1 == this(st, "_eat", IF value THEN "true" ELSE "false")
    IN  IF e1.failed THEN e1
        ELSE Ret(e1.st, [type |-> "BooleanLiteral", value |-> value])

\* NullLiteral : 'null'
NullLiteral(st) ==
    LET e1 == this(st, "_eat", "null")
    IN  IF e1.failed THEN e1
        ELSE Ret(e1.st, [type |-> "NullLiteral", value |-> null])

\* Literal : NumericLiteral | StringLiteral | BooleanLiteral | NullLiteral
Literal(st) ==
    IF NullLookahead(st) THEN ThrowTypeError(st)
    ELSE CASE st._lookahead.type = "NUMBER" -> this(st, "NumericLiteral", null)
           [] st._lookahead.type = "STRING" -> this(st, "StringLiteral", null)
           [] st._lookahead.type = "true" -> this(st, "BooleanLiteral", TRUE)
           [] st._lookahead.type = "false" -> this(st, "BooleanLiteral", FALSE)
           [] st._lookahead.type = "null" -> this(st, "NullLiteral", null)
           [] OTHER -> Throw(st, SyntaxError("Literal: unexpected literal production.",
                                             <<>>, nullType))

\* AssignmentOperator : SIMPLE_ASSIGN | COMPLEX_ASSIGN
AssignmentOperator(st) ==
    IF NullLookahead(st) THEN ThrowTypeError(st)
    ELSE IF st._lookahead.type = "SIMPLE_ASSIGN" THEN this(st, "_eat", "SIMPLE_ASSIGN")
    ELSE this(st, "_eat", "COMPLEX_ASSIGN")

\* StatementList without its while loop
StatementListOnce(st, stopLookAhead) ==
    LET first == this(st, "Statement", null)
    IN  IF first.failed THEN first
        ELSE Ret(first.st, <<first.ret>>)

\* StatementList : (Statement)*
StatementList(st, stopLookAhead) ==
    LET first == this(st, "Statement", null)
    IN  IF first.failed THEN first
        ELSE StatementListWhile(first.st, stopLookAhead, <<first.ret>>)

\* while (this._lookahead != null && this._lookahead.type !== stopLookAhead)
StatementListWhile(st, stopLookAhead, statementList) ==
    IF ~IsNull(st._lookahead) /\ st._lookahead.type # stopLookAhead
    THEN LET next == this(st, "Statement", null)
         IN  IF next.failed THEN next
             ELSE StatementListWhile(next.st, stopLookAhead,
                                     Append(statementList, next.ret))
    ELSE Ret(st, statementList)

\* Statement: the switch on this._lookahead.type
Statement(st) ==
    IF NullLookahead(st) THEN ThrowTypeError(st)
    ELSE CASE st._lookahead.type = "{" -> this(st, "BlockStatement", null)
           [] st._lookahead.type = ";" -> this(st, "EmptyStatement", null)
           [] st._lookahead.type = "let" -> this(st, "VariableStatement", null)
           [] st._lookahead.type = "if" -> this(st, "IfStatement", null)
           [] st._lookahead.type = "def" -> this(st, "FunctionDeclaration", null)
           [] st._lookahead.type = "return" -> this(st, "ReturnStatement", null)
           [] st._lookahead.type = "class" -> this(st, "ClassDeclaration", null)
           [] st._lookahead.type \in {"while", "do", "for"} -> this(st, "IterationStatement", null)
           [] OTHER -> this(st, "ExpressionStatement", null)

\* the if statement that never takes an else
IfStatementWithoutElse(st) ==
    LET e1 == this(st, "_eat", "if") IN
    IF e1.failed THEN e1 ELSE
    LET e2 == this(e1.st, "_eat", "(") IN
    IF e2.failed THEN e2 ELSE
    LET test == this(e2.st, "Expression", null) IN
    IF test.failed THEN test ELSE
    LET e3 == this(test.st, "_eat", ")") IN
    IF e3.failed THEN e3 ELSE
    LET consequent == this(e3.st, "Statement", null) IN
    IF consequent.failed THEN consequent ELSE
    Ret(consequent.st,
        [type |-> "IfStatement", test |-> test.ret,
         consequent |-> consequent.ret, alternate |-> null])

\* IfStatement : 'if' '(' Expression ')' Statement ('else' Statement)?
IfStatement(st) ==
    LET e1 == this(st, "_eat", "if") IN
    IF e1.failed THEN e1 ELSE
    LET e2 == this(e1.st, "_eat", "(") IN
    IF e2.failed THEN e2 ELSE
    LET test == this(e2.st, "Expression", null) IN
    IF test.failed THEN test ELSE
    LET e3 == this(test.st, "_eat", ")") IN
    IF e3.failed THEN e3 ELSE
    LET consequent == this(e3.st, "Statement", null) IN
    IF consequent.failed THEN consequent ELSE
    LET s == consequent.st
        alternate ==
            IF ~IsNull(s._lookahead) /\ s._lookahead.type = "else"
            THEN LET e4 == this(s, "_eat", "else")
                 IN  IF e4.failed THEN e4 ELSE this(e4.st, "Statement", null)
            ELSE Ret(s, null)
    IN  IF alternate.failed THEN alternate
        ELSE Ret(alternate.st,
                 [type |-> "IfStatement", test |-> test.ret,
                  consequent |-> consequent.ret, alternate |-> alternate.ret])

\* FunctionDeclaration : 'def' Identifier '(' OptFormalParameterList ')' BlockStatement
FunctionDeclaration(st) ==
    LET e1 == this(st, "_eat", "def") IN
    IF e1.failed THEN e1 ELSE
    LET name == this(e1.st, "Identifier", null) IN
    IF name.failed THEN name ELSE
    LET e2 == this(name.st, "_eat", "(") IN
    IF e2.failed THEN e2 ELSE
    LET s == e2.st
        params ==
            IF NullLookahead(s) THEN ThrowTypeError(s)
            ELSE IF s._lookahead.type # ")" THEN this(s, "FormalParameterList", <<>>)
            ELSE Ret(s, <<>>)
    IN
    IF params.failed THEN params ELSE
    LET e3 == this(params.st, "_eat", ")") IN
    IF e3.failed THEN e3 ELSE
    LET body == this(e3.st, "BlockStatement", null) IN
    IF body.failed THEN body
    ELSE Ret(body.st,
             [type |-> "FunctionDeclaration", name |-> name.ret,
              params |-> params.ret, body |-> body.ret])

\* FormalParameterList: do { params.push(Identifier()) } while (',' && _eat(','))
FormalParameterList(st, params) ==
    LET id == this(st, "Identifier", null) IN
    IF id.failed THEN id ELSE
    LET s == id.st IN
    IF NullLookahead(s) THEN ThrowTypeError(s)
    ELSE IF s._lookahead.type = ","
    THEN LET e1 == this(s, "_eat", ",")
         IN  IF e1.failed THEN e1
             ELSE this(e1.st, "FormalParameterList", Append(params, id.ret))
    ELSE Ret(s, Append(params, id.ret))

\* ReturnStatement : 'return' OptExpression ';'
ReturnStatement(st) ==
    LET e1 == this(st, "_eat", "return") IN
    IF e1.failed THEN e1 ELSE
    LET s == e1.st
        argument ==
            IF NullLookahead(s) THEN ThrowTypeError(s)
            ELSE IF s._lookahead.type # ";" THEN this(s, "Expression", null)
            ELSE Ret(s, null)
    IN
    IF argument.failed THEN argument ELSE
    LET e2 == this(argument.st, "_eat", ";") IN
    IF e2.failed THEN e2
    ELSE Ret(e2.st, [type |-> "ReturnStatement", argument |-> argument.ret])

\* ClassExtends : 'extends' Identifier
ClassExtends(st) ==
    LET e1 == this(st, "_eat", "extends")
    IN  IF e1.failed THEN e1 ELSE this(e1.st, "Identifier", null)

\* ClassDeclaration : 'class' Identifier OptClassExtends BlockStatement
ClassDeclaration(st) ==
    LET e1 == this(st, "_eat", "class") IN
    IF e1.failed THEN e1 ELSE
    LET id == this(e1.st, "Identifier", null) IN
    IF id.failed THEN id ELSE
    LET s == id.st
        superClass ==
            IF NullLookahead(s) THEN ThrowTypeError(s)
            ELSE IF s._lookahead.type = "extends" THEN this(s, "ClassExtends", null)
            ELSE Ret(s, null)
    IN
    IF superClass.failed THEN superClass ELSE
    LET body == this(superClass.st, "BlockStatement", null) IN
    IF body.failed THEN body
    ELSE Ret(body.st,
             [type |-> "ClassDeclaration", id |-> id.ret,
              superClass |-> superClass.ret, body |-> body.ret])

\* IterationStatement : WhileStatement | DoStatement | ForStatement
IterationStatement(st) ==
    IF NullLookahead(st) THEN ThrowTypeError(st)
    ELSE CASE st._lookahead.type = "while" -> this(st, "WhileStatement", null)
           [] st._lookahead.type = "do" -> this(st, "DoStatement", null)
           [] st._lookahead.type = "for" -> this(st, "ForStatement", null)
           [] OTHER -> Ret(st, null)

\* WhileStatement : 'while' '(' Expression ')' Statement
WhileStatement(st) ==
    LET e1 == this(st, "_eat", "while") IN
    IF e1.failed THEN e1 ELSE
    LET e2 == this(e1.st, "_eat", "(") IN
    IF e2.failed THEN e2 ELSE
    LET test == this(e2.st, "Expression", null) IN
    IF test.failed THEN test ELSE
    LET e3 == this(test.st, "_eat", ")") IN
    IF e3.failed THEN e3 ELSE
    LET body == this(e3.st, "Statement", null) IN
    IF body.failed THEN body
    ELSE Ret(body.st, [type |-> "WhileStatement", test |-> test.ret, body |-> body.ret])

\* DoStatement : 'do' Statement 'while' '(' Expression ')' ';'
DoStatement(st) ==
    LET e1 == this(st, "_eat", "do") IN
    IF e1.failed THEN e1 ELSE
    LET body == this(e1.st, "Statement", null) IN
    IF body.failed THEN body ELSE
    LET e2 == this(body.st, "_eat", "while") IN
    IF e2.failed THEN e2 ELSE
    LET e3 == this(e2.st, "_eat", "(") IN
    IF e3.failed THEN e3 ELSE
    LET test == this(e3.st, "Expression", null) IN
    IF test.failed THEN test ELSE
    LET e4 == this(test.st, "_eat", ")") IN
    IF e4.failed THEN e4 ELSE
    LET e5 == this(e4.st, "_eat", ";") IN
    IF e5.failed THEN e5
    ELSE Ret(e5.st, [type |-> "DoStatement", body |-> body.ret, test |-> test.ret])

\* ForStatement : 'for' '(' OptForStatementInit ';' OptExpression ';' OptExpression ')' Statement
ForStatement(st) ==
    LET e1 == this(st, "_eat", "for") IN
    IF e1.failed THEN e1 ELSE
    LET e2 == this(e1.st, "_eat", "(") IN
    IF e2.failed THEN e2 ELSE
    LET s1 == e2.st
        init ==
            IF NullLookahead(s1) THEN ThrowTypeError(s1)
            ELSE IF s1._lookahead.type # ";" THEN this(s1, "ForStatementInit", null)
            ELSE Ret(s1, null)
    IN
    IF init.failed THEN init ELSE
    LET e3 == this(init.st, "_eat", ";") IN
    IF e3.failed THEN e3 ELSE
    LET s2 == e3.st
        test ==
            IF NullLookahead(s2) THEN ThrowTypeError(s2)
            ELSE IF s2._lookahead.type # ";" THEN this(s2, "Expression", null)
            ELSE Ret(s2, null)
    IN
    IF test.failed THEN test ELSE
    LET e4 == this(test.st, "_eat", ";") IN
    IF e4.failed THEN e4 ELSE
    LET s3 == e4.st
        update ==
            IF NullLookahead(s3) THEN ThrowTypeError(s3)
            ELSE IF s3._lookahead.type # ")" THEN this(s3, "Expression", null)
            ELSE Ret(s3, null)
    IN
    IF update.failed THEN update ELSE
    LET e5 == this(update.st, "_eat", ")") IN
    IF e5.failed THEN e5 ELSE
    LET body == this(e5.st, "Statement", null) IN
    IF body.failed THEN body
    ELSE Ret(body.st,
             [type |-> "ForStatement", init |-> init.ret, test |-> test.ret,
              update |-> update.ret, body |-> body.ret])

\* ForStatementInit : VariableStatementInit | Expression
ForStatementInit(st) ==
    IF NullLookahead(st) THEN ThrowTypeError(st)
    ELSE IF st._lookahead.type = "let" THEN this(st, "VariableStatementInit", null)
    ELSE this(st, "Expression", null)

\* VariableStatementInit : 'let' VariableDeclarationList
VariableStatementInit(st) ==
    LET e1 == this(st, "_eat", "let") IN
    IF e1.failed THEN e1 ELSE
    LET declarations == this(e1.st, "VariableDeclarationList", <<>>) IN
    IF declarations.failed THEN declarations
    ELSE Ret(declarations.st,
             [type |-> "VariableStatement", declarations |-> declarations.ret])

\* VariableStatement : 'let' VariableDeclarationList ';'
VariableStatement(st) ==
    LET variableStatement == this(st, "VariableStatementInit", null) IN
    IF variableStatement.failed THEN variableStatement ELSE
    LET e1 == this(variableStatement.st, "_eat", ";") IN
    IF e1.failed THEN e1 ELSE Ret(e1.st, variableStatement.ret)

\* VariableDeclarationList: do { push(VariableDeclaration()) } while (',' && _eat(','))
VariableDeclarationList(st, declarations) ==
    LET d == this(st, "VariableDeclaration", null) IN
    IF d.failed THEN d ELSE
    LET s == d.st IN
    IF NullLookahead(s) THEN ThrowTypeError(s)
    ELSE IF s._lookahead.type = ","
    THEN LET e1 == this(s, "_eat", ",")
         IN  IF e1.failed THEN e1
             ELSE this(e1.st, "VariableDeclarationList", Append(declarations, d.ret))
    ELSE Ret(s, Append(declarations, d.ret))

\* VariableDeclaration : Identifier OptVariableInitializer
VariableDeclaration(st) ==
    LET id == this(st, "Identifier", null) IN
    IF id.failed THEN id ELSE
    LET s == id.st
        init ==
            IF NullLookahead(s) THEN ThrowTypeError(s)
            ELSE IF s._lookahead.type # ";" /\ s._lookahead.type # ","
            THEN this(s, "VariableInitializer", null)
            ELSE Ret(s, null)
    IN  IF init.failed THEN init
        ELSE Ret(init.st,
                 [type |-> "VariableDeclaration", id |-> id.ret, init |-> init.ret])

\* VariableInitializer : SIMPLE_ASSIGN AssignmentExpression
VariableInitializer(st) ==
    LET e1 == this(st, "_eat", "SIMPLE_ASSIGN")
    IN  IF e1.failed THEN e1 ELSE this(e1.st, "AssignmentExpression", null)

\* ExpressionStatement : Expression ';'
ExpressionStatement(st) ==
    LET expression == this(st, "Expression", null) IN
    IF expression.failed THEN expression ELSE
    LET e1 == this(expression.st, "_eat", ";") IN
    IF e1.failed THEN e1
    ELSE Ret(e1.st, [type |-> "ExpressionStatement", expression |-> expression.ret])

\* BlockStatement : '{' OptStatementList '}'
BlockStatement(st) ==
    LET e1 == this(st, "_eat", "{") IN
    IF e1.failed THEN e1 ELSE
    LET s == e1.st
        body ==
            IF NullLookahead(s) THEN ThrowTypeError(s)
            ELSE IF s._lookahead.type # "}" THEN this(s, "StatementList", "}")
            ELSE Ret(s, <<>>)
    IN
    IF body.failed THEN body ELSE
    LET e2 == this(body.st, "_eat", "}") IN
    IF e2.failed THEN e2
    ELSE Ret(e2.st, [type |-> "BlockStatement", body |-> body.ret])

\* Expression : AssignmentExpression
Expression(st) == this(st, "AssignmentExpression", null)

\* the assignment whose right side is a LogicalORExpression
AssignmentExpressionOnce(st) ==
    LET left == this(st, "LogicalORExpression", null) IN
    IF left.failed THEN left ELSE
    LET s == left.st IN
    IF NullLookahead(s) THEN ThrowTypeError(s)
    ELSE IF ~_isAssignmentOperator(s._lookahead.type) THEN left
    ELSE
    LET operator == this(s, "AssignmentOperator", null) IN
    IF operator.failed THEN operator ELSE
    LET target == _checkValidAssignmentTarget(operator.st, left.ret) IN
    IF target.failed THEN target ELSE
    LET right == this(target.st, "LogicalORExpression", null) IN
    IF right.failed THEN right
    ELSE Ret(right.st,
             [type |-> "AssignmentExpression", operator |-> operator.ret.value,
              left |-> target.ret, right |-> right.ret])

\* AssignmentExpression : LogicalORExpression
\*                      | LeftHandSideExpression AssignmentOperator AssignmentExpression
\* The object literal evaluates operator, left, right in this order.
AssignmentExpression(st) ==
    LET left == this(st, "LogicalORExpression", null) IN
    IF left.failed THEN left ELSE
    LET s == left.st IN
    IF NullLookahead(s) THEN ThrowTypeError(s)
    ELSE IF ~_isAssignmentOperator(s._lookahead.type) THEN left
    ELSE
    LET operator == this(s, "AssignmentOperator", null) IN
    IF operator.failed THEN operator ELSE
    LET target == _checkValidAssignmentTarget(operator.st, left.ret) IN
    IF target.failed THEN target ELSE
    LET right == this(target.st, "AssignmentExpression", null) IN
    IF right.failed THEN right
    ELSE Ret(right.st,
             [type |-> "AssignmentExpression", operator |-> operator.ret.value,
              left |-> target.ret, right |-> right.ret])

\* LogicalORExpression : LogicalANDExpression (LOGICAL_OR LogicalANDExpression)*
LogicalORExpression(st) ==
    LET left == this(st, "LogicalANDExpression", null)
    IN  IF left.failed THEN left ELSE LogicalORExpressionWhile(left)

LogicalORExpressionWhile(left) ==
    LET s == left.st IN
    IF NullLookahead(s) THEN ThrowTypeError(s)
    ELSE IF s._lookahead.type # "LOGICAL_OR" THEN left
    ELSE
    LET operator == this(s, "_eat", "LOGICAL_OR") IN
    IF operator.failed THEN operator ELSE
    LET right == this(operator.st, "LogicalANDExpression", null) IN
    IF right.failed THEN right
    ELSE LogicalORExpressionWhile(
             Ret(right.st,
                 [type |-> "LogicalExpression", operator |-> operator.ret.value,
                  left |-> left.ret, right |-> right.ret]))

\* LogicalANDExpression : EqualityExpression (LOGICAL_AND EqualityExpression)*
LogicalANDExpression(st) ==
    LET left == this(st, "EqualityExpression", null)
    IN  IF left.failed THEN left ELSE LogicalANDExpressionWhile(left)

LogicalANDExpressionWhile(left) ==
    LET s == left.st IN
    IF NullLookahead(s) THEN ThrowTypeError(s)
    ELSE IF s._lookahead.type # "LOGICAL_AND" THEN left
    ELSE
    LET operator == this(s, "_eat", "LOGICAL_AND") IN
    IF operator.failed THEN operator ELSE
    LET right == this(operator.st, "EqualityExpression", null) IN
    IF right.failed THEN right
    ELSE LogicalANDExpressionWhile(
             Ret(right.st,
                 [type |-> "LogicalExpression", operator |-> operator.ret.value,
                  left |-> left.ret, right |-> right.ret]))

\* EqualityExpression : RelationalExpression (EQUALITY_OPERATOR RelationalExpression)*
\* The node built in the loop has the fields type, operator and right only.
EqualityExpression(st) ==
    LET left == this(st, "RelationalExpression", null)
    IN  IF left.failed THEN left ELSE EqualityExpressionWhile(left)

EqualityExpressionWhile(left) ==
    LET s == left.st IN
    IF NullLookahead(s) THEN ThrowTypeError(s)
    ELSE IF s._lookahead.type # "EQUALITY_OPERATOR" THEN left
    ELSE
    LET operator == this(s, "_eat", "EQUALITY_OPERATOR") IN
    IF operator.failed THEN operator ELSE
    LET right == this(operator.st, "RelationalExpression", null) IN
    IF right.failed THEN right
    ELSE EqualityExpressionWhile(
             Ret(right.st,
                 [type |-> "BinaryExpression", operator |-> operator.ret.value,
                  right |-> right.ret]))

\* RelationalExpression : AdditiveExpression (RELATIONAL_OPERATOR AdditiveExpression)*
RelationalExpression(st) ==
    LET left == this(st, "AdditiveExpression", null)
    IN  IF left.failed THEN left ELSE RelationalExpressionWhile(left)

RelationalExpressionWhile(left) ==
    LET s == left.st IN
    IF NullLookahead(s) THEN ThrowTypeError(s)
    ELSE IF s._lookahead.type # "RELATIONAL_OPERATOR" THEN left
    ELSE
    LET operator == this(s, "_eat", "RELATIONAL_OPERATOR") IN
    IF operator.failed THEN operator ELSE
    LET right == this(operator.st, "AdditiveExpression", null) IN
    IF right.failed THEN right
    ELSE RelationalExpressionWhile(
             Ret(right.st,
                 [type |-> "BinaryExpression", operator |-> operator.ret.value,
                  left |-> left.ret, right |-> right.ret]))

\* AdditiveExpression : MultiplicativeExpression (ADDITIVE_OPERATOR MultiplicativeExpression)*
AdditiveExpression(st) ==
    LET left == this(st, "MultiplicativeExpression", null)
    IN  IF left.failed THEN left ELSE AdditiveExpressionWhile(left)

\* the additive loop that parses all that follows the operator before it
\* builds its node
AdditiveExpressionWhileRight(left) ==
    LET s == left.st IN
    IF NullLookahead(s) THEN ThrowTypeError(s)
    ELSE IF s._lookahead.type # "ADDITIVE_OPERATOR" THEN left
    ELSE
    LET operator == this(s, "_eat", "ADDITIVE_OPERATOR") IN
    IF operator.failed THEN operator ELSE
    LET right == this(operator.st, "AdditiveExpression", null) IN
    IF right.failed THEN right
    ELSE Ret(right.st,
             [type |-> "BinaryExpression", operator |-> operator.ret.value,
              left |-> left.ret, right |-> right.ret])


AdditiveExpressionWhile(left) ==
    LET s == left.st IN
    IF NullLookahead(s) THEN ThrowTypeError(s)
    ELSE IF s._lookahead.type # "ADDITIVE_OPERATOR" THEN left
    ELSE
    LET operator == this(s, "_eat", "ADDITIVE_OPERATOR") IN
    IF operator.failed THEN operator ELSE
    LET right == this(operator.st, "MultiplicativeExpression", null) IN
    IF right.failed THEN right
    ELSE AdditiveExpressionWhile(
             Ret(right.st,
                 [type |-> "BinaryExpression", operator |-> operator.ret.value,
                  left |-> left.ret, right |-> right.ret]))

\* the multiplicative level that parses its operands as additive expressions
MultiplicativeExpressionLoose(st) ==
    LET left == this(st, "UnaryExpression", null)
    IN  IF left.failed THEN left ELSE AdditiveExpressionWhile(left)

\* MultiplicativeExpression : UnaryExpression (MULTIPLICATIVE_OPERATOR UnaryExpression)*
MultiplicativeExpression(st) ==
    LET left == this(st, "UnaryExpression", null)
    IN  IF left.failed THEN left ELSE MultiplicativeExpressionWhile(left)

MultiplicativeExpressionWhile(left) ==
    LET s == left.st IN
    IF NullLookahead(s) THEN ThrowTypeError(s)
    ELSE IF s._lookahead.type # "MULTIPLICATIVE_OPERATOR" THEN left
    ELSE
    LET operator == this(s, "_eat", "MULTIPLICATIVE_OPERATOR") IN
    IF operator.failed THEN operator ELSE
    LET right == this(operator.st, "UnaryExpression", null) IN
    IF right.failed THEN right
    ELSE MultiplicativeExpressionWhile(
             Ret(right.st,
                 [type |-> "BinaryExpression", operator |-> operator.ret.value,
                  left |-> left.ret, right |-> right.ret]))

\* UnaryExpression : LeftHandSideExpression
\*                 | ADDITIVE_OPERATOR UnaryExpression | LOGICAL_NOT UnaryExpression
UnaryExpression(st) ==
    IF NullLookahead(st) THEN ThrowTypeError(st)
    ELSE IF st._lookahead.type \in {"ADDITIVE_OPERATOR", "LOGICAL_NOT"}
    THEN LET operator == this(st, "_eat", st._lookahead.type) IN
         IF operator.failed THEN operator ELSE
         LET argument == this(operator.st, "UnaryExpression", null) IN
         IF argument.failed THEN argument
         ELSE Ret(argument.st,
                  [type |-> "UnaryExpression", operator |-> operator.ret.value,
                   argument |-> argument.ret])
    ELSE this(st, "LeftHandSideExpression", null)

\* LeftHandSideExpression : CallMemberExpression
LeftHandSideExpression(st) == this(st, "CallMemberExpression", null)

\* the production that goes on with . and [ after a call
CallMemberExpressionThenMember(st) ==
    IF NullLookahead(st) THEN ThrowTypeError(st)
    ELSE IF st._lookahead.type = "super"
    THEN LET super == this(st, "Super", null)
         IN  IF super.failed THEN super ELSE this(super.st, "_CallExpression", super.ret)
    ELSE LET member == this(st, "MemberExpression", null) IN
         IF member.failed THEN member ELSE
         LET s == member.st IN
         IF NullLookahead(s) THEN ThrowTypeError(s)
         ELSE IF s._lookahead.type = "("
         THEN LET call == this(s, "_CallExpression", member.ret)
              IN  IF call.failed THEN call ELSE MemberExpressionWhile(call)
         ELSE member

\* CallMemberExpression : MemberExpression | CallExpression
CallMemberExpression(st) ==
    IF NullLookahead(st) THEN ThrowTypeError(st)
    ELSE IF st._lookahead.type = "super"
    THEN LET super == this(st, "Super", null)
         IN  IF super.failed THEN super ELSE this(super.st, "_CallExpression", super.ret)
    ELSE LET member == this(st, "MemberExpression", null) IN
         IF member.failed THEN member ELSE
         LET s == member.st IN
         IF NullLookahead(s) THEN ThrowTypeError(s)
         ELSE IF s._lookahead.type = "(" THEN this(s, "_CallExpression", member.ret)
         ELSE member

\* the call that takes one argument list only
_CallExpressionOnce(st, callee) ==
    LET arguments == this(st, "Arguments", null) IN
    IF arguments.failed THEN arguments
    ELSE Ret(arguments.st,
             [type |-> "CallExpression", callee |-> callee, arguments |-> arguments.ret])

\* CallExpression : Callee Arguments, Callee : MemberExpression | CallExpression
_CallExpression(st, callee) ==
    LET arguments == this(st, "Arguments", null) IN
    IF arguments.failed THEN arguments ELSE
    LET s == arguments.st
        callExpression ==
            [type |-> "CallExpression", callee |-> callee, arguments |-> arguments.ret]
    IN  IF NullLookahead(s) THEN ThrowTypeError(s)
        ELSE IF s._lookahead.type = "(" THEN this(s, "_CallExpression", callExpression)
        ELSE Ret(s, callExpression)

\* Arguments : '(' OptArgumentList ')'
Arguments(st) ==
    LET e1 == this(st, "_eat", "(") IN
    IF e1.failed THEN e1 ELSE
    LET s == e1.st
        argumentList ==
            IF NullLookahead(s) THEN ThrowTypeError(s)
            ELSE IF s._lookahead.type # ")" THEN this(s, "ArgumentList", <<>>)
            ELSE Ret(s, <<>>)
    IN
    IF argumentList.failed THEN argumentList ELSE
    LET e2 == this(argumentList.st, "_eat", ")") IN
    IF e2.failed THEN e2 ELSE Ret(e2.st, argumentList.ret)

\* ArgumentList: do { push(AssignmentExpression()) } while (',' && _eat(','))
ArgumentList(st, argumentList) ==
    LET a == this(st, "AssignmentExpression", null) IN
    IF a.failed THEN a ELSE
    LET s == a.st IN
    IF NullLookahead(s) THEN ThrowTypeError(s)
    ELSE IF s._lookahead.type = ","
    THEN LET e1 == this(s, "_eat", ",")
         IN  IF e1.failed THEN e1
             ELSE this(e1.st, "ArgumentList", Append(argumentList, a.ret))
    ELSE Ret(s, Append(argumentList, a.ret))

\* MemberExpression : PrimaryExpression
\*                  | MemberExpression '.' Identifier | MemberExpression '[' Expression ']'
MemberExpression(st) ==
    LET object == this(st, "PrimaryExpression", null)
    IN  IF object.failed THEN object ELSE MemberExpressionWhile(object)

MemberExpressionWhile(object) ==
    LET s == object.st IN
    IF NullLookahead(s) THEN ThrowTypeError(s)
    ELSE IF s._lookahead.type = "."
    THEN LET e1 == this(s, "_eat", ".") IN
         IF e1.failed THEN e1 ELSE
         LET property == this(e1.st, "Identifier", null) IN
         IF property.failed THEN property
         ELSE MemberExpressionWhile(
                  Ret(property.st,
                      [type |-> "MemberExpression", computed |-> FALSE,
                       object |-> object.ret, property |-> property.ret]))
    ELSE IF s._lookahead.type = "["
    THEN LET e1 == this(s, "_eat", "[") IN
         IF e1.failed THEN e1 ELSE
         LET property == this(e1.st, "Expression", null) IN
         IF property.failed THEN property ELSE
         LET e2 == this(property.st, "_eat", "]") IN
         IF e2.failed THEN e2
         ELSE MemberExpressionWhile(
                  Ret(e2.st,
                      [type |-> "MemberExpression", computed |-> TRUE,
                       object |-> object.ret, property |-> property.ret]))
    ELSE object

\* the primary expression that takes super as well
PrimaryExpressionWithSuper(st) ==
    IF NullLookahead(st) THEN ThrowTypeError(st)
    ELSE IF _isLiteral(st._lookahead.type) THEN this(st, "Literal", null)
    ELSE CASE st._lookahead.type = "(" -> this(st, "ParenthesizedExpression", null)
           [] st._lookahead.type = "IDENTIFIER" -> this(st, "Identifier", null)
           [] st._lookahead.type = "this" -> this(st, "ThisExpression", null)
           [] st._lookahead.type = "new" -> this(st, "NewExpression", null)
           [] st._lookahead.type = "super" -> this(st, "Super", null)
           [] OTHER -> Throw(st, SyntaxError("Unexpected primary expression.",
                                             <<>>, nullType))

\* PrimaryExpression : Literal | ParenthesizedExpression | Identifier
\*                   | ThisExpression | NewExpression
PrimaryExpression(st) ==
    IF NullLookahead(st) THEN ThrowTypeError(st)
    ELSE IF _isLiteral(st._lookahead.type) THEN this(st, "Literal", null)
    ELSE CASE st._lookahead.type = "(" -> this(st, "ParenthesizedExpression", null)
           [] st._lookahead.type = "IDENTIFIER" -> this(st, "Identifier", null)
           [] st._lookahead.type = "this" -> this(st, "ThisExpression", null)
           [] st._lookahead.type = "new" -> this(st, "NewExpression", null)
           [] OTHER -> Throw(st, SyntaxError("Unexpected primary expression.",
                                             <<>>, nullType))

\* the new expression whose argument list may be left out
NewExpressionOptionalArguments(st) ==
    LET e1 == this(st, "_eat", "new") IN
    IF e1.failed THEN e1 ELSE
    LET callee == this(e1.st, "MemberExpression", null) IN
    IF callee.failed THEN callee ELSE
    LET arguments ==
            IF ~IsNull(callee.st._lookahead) /\ callee.st._lookahead.type = "("
            THEN this(callee.st, "Arguments", null)
            ELSE Ret(callee.st, <<>>) IN
    IF arguments.failed THEN arguments
    ELSE Ret(arguments.st,
             [type |-> "NewExpression", callee |-> callee.ret,
              arguments |-> arguments.ret])

\* NewExpression : 'new' MemberExpression Arguments
NewExpression(st) ==
    LET e1 == this(st, "_eat", "new") IN
    IF e1.failed THEN e1 ELSE
    LET callee == this(e1.st, "MemberExpression", null) IN
    IF callee.failed THEN callee ELSE
    LET arguments == this(callee.st, "Arguments", null) IN
    IF arguments.failed THEN arguments
    ELSE Ret(arguments.st,
             [type |-> "NewExpression", callee |-> callee.ret,
              arguments |-> arguments.ret])

\* ParenthesizedExpression : '(' Expression ')'
ParenthesizedExpression(st) ==
    LET e1 == this(st, "_eat", "(") IN
    IF e1.failed THEN e1 ELSE
    LET expression == this(e1.st, "Expression", null) IN
    IF expression.failed THEN expression ELSE
    LET e2 == this(expression.st, "_eat", ")") IN
    IF e2.failed THEN e2 ELSE Ret(e2.st, expression.ret)

\* Program : StatementList
Program(st) ==
    LET body == this(st, "StatementList", nullType)
    IN  IF body.failed THEN body
        ELSE Ret(body.st, [type |-> "Program", body |-> body.ret])

\* this.method(argument): the call of a method of the Parser st
this(st, method, argument) ==
    CASE method = "_eat" -> _eat(st, argument)
      [] method = "Identifier" -> Identifier(st)
      [] method = "EmptyStatement" -> EmptyStatement(st)
      [] method = "ThisExpression" -> ThisExpression(st)
      [] method = "Super" -> Super(st)
      [] method = "NumericLiteral" -> NumericLiteral(st)
      [] method = "StringLiteral" -> StringLiteral(st)
      [] method = "BooleanLiteral" -> BooleanLiteral(st, argument)
      [] method = "NullLiteral" -> NullLiteral(st)
      [] method = "Literal" -> Literal(st)
      [] method = "AssignmentOperator" -> AssignmentOperator(st)
      [] method = "StatementList" -> StatementList(st, argument)
      [] method = "Statement" -> Statement(st)
      [] method = "IfStatement" -> IfStatement(st)
      [] method = "FunctionDeclaration" -> FunctionDeclaration(st)
      [] method = "FormalParameterList" -> FormalParameterList(st, argument)
      [] method = "ReturnStatement" -> ReturnStatement(st)
      [] method = "ClassExtends" -> ClassExtends(st)
      [] method = "ClassDeclaration" -> ClassDeclaration(st)
      [] method = "IterationStatement" -> IterationStatement(st)
      [] method = "WhileStatement" -> WhileStatement(st)
      [] method = "DoStatement" -> DoStatement(st)
      [] method = "ForStatement" -> ForStatement(st)
      [] method = "ForStatementInit" -> ForStatementInit(st)
      [] method = "VariableStatementInit" -> VariableStatementInit(st)
      [] method = "VariableStatement" -> VariableStatement(st)
      [] method = "VariableDeclarationList" -> VariableDeclarationList(st, argument)
      [] method = "VariableDeclaration" -> VariableDeclaration(st)
      [] method = "VariableInitializer" -> VariableInitializer(st)
      [] method = "ExpressionStatement" -> ExpressionStatement(st)
      [] method = "BlockStatement" -> BlockStatement(st)
      [] method = "Expression" -> Expression(st)
      [] method = "AssignmentExpression" -> AssignmentExpression(st)
      [] method = "LogicalORExpression" -> LogicalORExpression(st)
      [] method = "LogicalANDExpression" -> LogicalANDExpression(st)
      [] method = "EqualityExpression" -> EqualityExpression(st)
      [] method = "RelationalExpression" -> RelationalExpression(st)
      [] method = "AdditiveExpression" -> AdditiveExpression(st)
      [] method = "MultiplicativeExpression" -> MultiplicativeExpression(st)
      [] method = "UnaryExpression" -> UnaryExpression(st)
      [] method = "LeftHandSideExpression" -> LeftHandSideExpression(st)
      [] method = "CallMemberExpression" -> CallMemberExpression(st)
      [] method = "_CallExpression" -> _CallExpression(st, argument)
      [] method = "Arguments" -> Arguments(st)
      [] method = "ArgumentList" -> ArgumentList(st, argument)
      [] method = "MemberExpression" -> MemberExpression(st)
      [] method = "PrimaryExpression" -> PrimaryExpression(st)
      [] method = "NewExpression" -> NewExpression(st)
      [] method = "ParenthesizedExpression" -> ParenthesizedExpression(st)
      [] method = "Program" -> Program(st)

undefined == [undefined |-> TRUE]

\* new Tokenizer(): no field is set before init
TokenizerNew == [_string |-> undefined, _cursor |-> undefined]

\* new Parser()
ParserNew == [_string |-> <<>>, _tokenizer |-> TokenizerNew, _lookahead |-> undefined]

\* parse that reads a first token only when the Parser has no lookahead yet
parseFirstOnce(p, string, first) ==
    [_string |-> string, _tokenizer |-> first.tk,
     _lookahead |-> IF IsNull(first.thrown) /\ p._lookahead = undefined
                    THEN first.token ELSE p._lookahead,
     thrown |-> first.thrown, log |-> <<>>]

\* parse(string) on the Parser object p: [st, ret], st the object it leaves
\* (with thrown and log), ret the Program node
\* the Parser p once parse has read the first token
parseFirst(p, string, first) ==
    [_string |-> string, _tokenizer |-> first.tk,
     _lookahead |-> IF IsNull(first.thrown) THEN first.token ELSE p._lookahead,
     thrown |-> first.thrown, log |-> <<>>]

\* return this.Program(), unless getNextToken threw
parseProgram(st) ==
    IF ~IsNull(st.thrown) THEN Throw(st, st.thrown) ELSE this(st, "Program", null)

parse(p, string) ==
    parseProgram(parseFirst(p, string, getNextToken(TokenizerInit(string))))

(***************************************************************************)
(* Source texts the driver hands to the Tokenizer and the Parser.          *)
(***************************************************************************)
\* the texts of parts, each followed by sep
RECURSIVE Join(_, _)
Join(parts, sep) ==
    IF parts = <<>> THEN <<>>
    ELSE Head(parts) \o (IF Len(parts) > 1 THEN sep ELSE <<>>) \o Join(Tail(parts), sep)

Space == <<" ">>

\* the text of lexemes separated by single spaces
Text(lexemes) == Join(lexemes, Space)

MaxLexemes == 3

\* the lexemes the exhaustive inputs are made of
Vocabulary ==
    { <<"a">>, <<"5">>, <<"+">>, <<"=">>, <<";">>,
      <<"s", "u", "p", "e", "r">>, <<"l", "e", "t">>, <<"@">> }

\* all sequences of at most n lexemes of the vocabulary
RECURSIVE LexemeSeqs(_, _)
LexemeSeqs(vocabulary, n) ==
    IF n = 0 THEN {<<>>}
    ELSE LET shorter == LexemeSeqs(vocabulary, n - 1)
         IN  shorter \cup {Append(s, l) : s \in {q \in shorter : Len(q) = n - 1},
                                              l \in vocabulary}

\* every text of at most MaxLexemes lexemes, written with and without spaces,
\* and the texts of white space and comments only
MaxOpen == 2

\* the sequences of at most n lexemes with at most MaxOpen of them a (
OpenLexemeSeqs(vocabulary, n) ==
    {s \in LexemeSeqs(vocabulary, n) :
        Cardinality({i \in DOMAIN s : s[i] = <<"(">>}) <= MaxOpen}

LexemeInputs ==
    {Join(s, sep) : s \in LexemeSeqs(Vocabulary, MaxLexemes), sep \in {<<>>, Space}}
        \cup {<<" ">>, <<" ", "\n">>, <<"/", "/", "a">>, <<"/", "*", "a", "*", "/">>}

(***************************************************************************)
(* Writing an AST.  A term is a piece of source, as its lexemes, with the  *)
(* node it stands for.                                                     *)
(***************************************************************************)
Term(lexemes, ast) == [lexemes |-> lexemes, ast |-> ast]

\* the nodes of terms
Asts(terms) == [i \in 1..Len(terms) |-> terms[i].ast]

IdentifierTerm(c) == Term(<<<<c>>>>, [type |-> "Identifier", name |-> <<c>>])

NumericTerm(c, value) == Term(<<<<c>>>>, [type |-> "NumericLiteral", value |-> value])

\* x operator y, a node of the given type
InfixTerm(type, x, operator, y) ==
    Term(x.lexemes \o <<operator>> \o y.lexemes,
         [type |-> type, operator |-> operator, left |-> x.ast, right |-> y.ast])

\* ( x ): the node of x
ParenthesizedTerm(x) == Term(<<<<"(">>>> \o x.lexemes \o <<<<")">>>>, x.ast)

\* object . name
DotTerm(object, c) ==
    Term(object.lexemes \o <<<<".">>, <<c>>>>,
         [type |-> "MemberExpression", computed |-> FALSE, object |-> object.ast,
          property |-> [type |-> "Identifier", name |-> <<c>>]])

\* object [ property ]
IndexTerm(object, property) ==
    Term(object.lexemes \o <<<<"[">>>> \o property.lexemes \o <<<<"]">>>>,
         [type |-> "MemberExpression", computed |-> TRUE, object |-> object.ast,
          property |-> property.ast])

\* the lexemes of terms separated by commas
RECURSIVE CommaList(_)
CommaList(terms) ==
    IF Len(terms) = 0 THEN <<>>
    ELSE Head(terms).lexemes
             \o (IF Len(terms) > 1 THEN <<<<",">>>> ELSE <<>>) \o CommaList(Tail(terms))

\* callee ( arguments )
CallTerm(callee, arguments) ==
    Term(callee.lexemes \o <<<<"(">>>> \o CommaList(arguments) \o <<<<")">>>>,
         [type |-> "CallExpression", callee |-> callee.ast,
          arguments |-> Asts(arguments)])

\* expression ;
ExpressionStatementTerm(expression) ==
    Term(expression.lexemes \o <<<<";">>>>,
         [type |-> "ExpressionStatement", expression |-> expression.ast])

\* the lexemes of terms, one after the other
RECURSIVE LexemesOf(_)
LexemesOf(terms) ==
    IF Len(terms) = 0 THEN <<>> ELSE Head(terms).lexemes \o LexemesOf(Tail(terms))

\* a program of the statements
ProgramTerm(statements) ==
    Term(LexemesOf(statements), [type |-> "Program", body |-> Asts(statements)])

\* a case: the text of a term, written with single spaces, and its node
Case(term) == [text |-> Text(term.lexemes), ast |-> term.ast]

\* the program of one expression statement
ExpressionCase(expression) ==
    Case(ProgramTerm(<<ExpressionStatementTerm(expression)>>))

(***************************************************************************)
(* Expressions of binary operators.  A level is the node type a production *)
(* builds with the operators it loops on; Levels lists the productions     *)
(* from AssignmentExpression down to MultiplicativeExpression, without     *)
(* EqualityExpression.                                                     *)
(***************************************************************************)
AssignmentOperators ==
    {<<"=">>, <<"+", "=">>, <<"-", "=">>, <<"*", "=">>, <<"/", "=">>}

EqualityOperators == {<<"=", "=">>, <<"!", "=">>}

Levels ==
    << [type |-> "AssignmentExpression", operators |-> AssignmentOperators],
       [type |-> "LogicalExpression", operators |-> {<<"|", "|">>}],
       [type |-> "LogicalExpression", operators |-> {<<"&", "&">>}],
       [type |-> "BinaryExpression",
        operators |-> {<<"<">>, <<">">>, <<"<", "=">>, <<">", "=">>}],
       [type |-> "BinaryExpression", operators |-> {<<"+">>, <<"-">>}],
       [type |-> "BinaryExpression", operators |-> {<<"*">>, <<"/">>}] >>

AssignmentLevels == {l \in DOMAIN Levels : Levels[l].type = "AssignmentExpression"}

BinaryLevels == DOMAIN Levels \ AssignmentLevels

\* the operands a position of a case is filled with: a name and a number
Operands(c) == {IdentifierTerm(c), NumericTerm("5", 5)}

\* x op1 y op2 z ; for op1 and op2 of one binary level, folded to the left
LeftAssociativeCases ==
    UNION {{ExpressionCase(
                InfixTerm(Levels[l].type,
                          InfixTerm(Levels[l].type, x, op1, y), op2, z)) :
              op1 \in Levels[l].operators, op2 \in Levels[l].operators,
              x \in Operands("a"), y \in Operands("b"), z \in Operands("c")} :
           l \in BinaryLevels}

\* x op1 y ; and x op1 y op2 z ; for equality operators, folded to the left
EqualityCases ==
    {ExpressionCase(InfixTerm("BinaryExpression", x, op1, y)) :
        op1 \in EqualityOperators, x \in Operands("a"), y \in Operands("b")}
    \cup
    {ExpressionCase(
        InfixTerm("BinaryExpression",
                  InfixTerm("BinaryExpression", x, op1, y), op2, z)) :
        op1 \in EqualityOperators, op2 \in EqualityOperators,
        x \in Operands("a"), y \in Operands("b"), z \in Operands("c")}

\* the operands x, y, z under a first operator of level l: an assignment
\* is given an Identifier to assign to
OperandTriples(l) ==
    {<<IdentifierTerm("x"), IdentifierTerm("y"), IdentifierTerm("z")>>}
    \cup (IF l \in AssignmentLevels THEN {}
          ELSE {<<NumericTerm("2", 2), NumericTerm("3", 3), NumericTerm("4", 4)>>})

\* x op1 y op2 z with op1 of level l1 and op2 of another level l2: the
\* operator of the tighter level takes its two neighbours
PrecedenceTerm(l1, op1, l2, op2, x, y, z) ==
    IF l1 < l2
    THEN InfixTerm(Levels[l1].type, x, op1, InfixTerm(Levels[l2].type, y, op2, z))
    ELSE InfixTerm(Levels[l2].type, InfixTerm(Levels[l1].type, x, op1, y), op2, z)

\* x op1 y op2 z ; for op1 of a level in first and op2 of another level in second
PrecedenceCases(first, second) ==
    UNION {{ExpressionCase(PrecedenceTerm(l[1], op1, l[2], op2, t[1], t[2], t[3])) :
              op1 \in Levels[l[1]].operators, op2 \in Levels[l[2]].operators,
              t \in OperandTriples(l[1])} :
           l \in {p \in first \X second : p[1] # p[2]}}

BinaryOperators == UNION {Levels[l].operators : l \in BinaryLevels}

\* the node type of a binary operator
BinaryType(operator) ==
    IF operator \in {<<"|", "|">>, <<"&", "&">>}
    THEN "LogicalExpression" ELSE "BinaryExpression"

\* ( x op1 y ) op2 z ; and x op1 ( y op2 z ) ; for binary operators
ParenthesizedCases ==
    LET x == IdentifierTerm("x")
        y == IdentifierTerm("y")
        z == IdentifierTerm("z")
    IN  {ExpressionCase(
            InfixTerm(BinaryType(op2),
                      ParenthesizedTerm(InfixTerm(BinaryType(op1), x, op1, y)),
                      op2, z)) :
            op1 \in BinaryOperators, op2 \in BinaryOperators}
        \cup
        {ExpressionCase(
            InfixTerm(BinaryType(op1), x, op1,
                      ParenthesizedTerm(InfixTerm(BinaryType(op2), y, op2, z)))) :
            op1 \in BinaryOperators, op2 \in BinaryOperators}

\* every x op1 y op2 z ; of two levels
AllPrecedenceCases == PrecedenceCases(DOMAIN Levels, DOMAIN Levels)

\* those in which op2 is a binary operator
BinarySecondCases == PrecedenceCases(DOMAIN Levels, BinaryLevels)

\* the texts x op1 y op2 z ; with op1 binary and op2 an assignment operator
AssignmentSecondTexts ==
    {c.text : c \in PrecedenceCases(BinaryLevels, AssignmentLevels)}

BinaryInputs ==
    {c.text : c \in LeftAssociativeCases \cup EqualityCases
                      \cup AllPrecedenceCases \cup ParenthesizedCases}

(***************************************************************************)
(* Assignments.                                                            *)
(***************************************************************************)
\* left sides whose node is neither an Identifier nor a MemberExpression
InvalidTargets ==
    { <<<<"5">>>>, <<<<"\"", "s", "\"">>>>, <<<<"t", "r", "u", "e">>>>,
      <<<<"n", "u", "l", "l">>>>, <<<<"t", "h", "i", "s">>>>,
      <<<<"a">>, <<"+">>, <<"b">>>>, <<<<"a">>, <<"*">>, <<"b">>>>,
      <<<<"a">>, <<"<">>, <<"b">>>>, <<<<"a">>, <<"=", "=">>, <<"b">>>>,
      <<<<"a">>, <<"&", "&">>, <<"b">>>>, <<<<"a">>, <<"|", "|">>, <<"b">>>>,
      <<<<"-">>, <<"a">>>>, <<<<"!">>, <<"a">>>>,
      <<<<"f">>, <<"(">>, <<")">>>>,
      <<<<"n", "e", "w">>, <<"F">>, <<"(">>, <<")">>>>,
      <<<<"(">>, <<"5">>, <<")">>>>,
      <<<<"(">>, <<"a">>, <<"+">>, <<"b">>, <<")">>>> }

\* left op 3 ; for every assignment operator, and left = followed by the
\* end of the text or by a character no rule matches
InvalidTargetTexts ==
    {Text(left \o <<op, <<"3">>, <<";">>>>) :
        left \in InvalidTargets, op \in AssignmentOperators}
    \cup {Text(left \o <<<<"=">>>> \o after) :
        left \in InvalidTargets, after \in {<<>>, <<<<"@">>>>}}

\* the left sides accepted: a name c, a . access and a [ ] access
ValidTargets(c) ==
    { IdentifierTerm(c), DotTerm(IdentifierTerm("o"), "p"),
      IndexTerm(IdentifierTerm("o"), NumericTerm("0", 0)) }

\* target op e ; for the targets above, in parentheses too
ValidTargetCases ==
    {ExpressionCase(InfixTerm("AssignmentExpression", t, op, e)) :
        t \in ValidTargets("a") \cup {ParenthesizedTerm(u) : u \in ValidTargets("a")},
        op \in AssignmentOperators,
        e \in Operands("b")}

\* t1 op1 t2 op2 e ; folded to the right
RightAssociativeCases ==
    {ExpressionCase(
        InfixTerm("AssignmentExpression", t1, op1,
                  InfixTerm("AssignmentExpression", t2, op2, e))) :
        t1 \in ValidTargets("a"), t2 \in ValidTargets("b"),
        op1 \in AssignmentOperators, op2 \in AssignmentOperators,
        e \in {IdentifierTerm("c")}}

AssignmentInputs ==
    InvalidTargetTexts \cup {c.text : c \in ValidTargetCases \cup RightAssociativeCases}

(***************************************************************************)
(* If statements.                                                          *)
(***************************************************************************)
\* if ( test ) consequent
IfTerm(test, consequent) ==
    Term(<<<<"i", "f">>, <<"(">>>> \o test.lexemes \o <<<<")">>>> \o consequent.lexemes,
         [type |-> "IfStatement", test |-> test.ast,
          consequent |-> consequent.ast, alternate |-> null])

\* if ( test ) consequent else alternate
IfElseTerm(test, consequent, alternate) ==
    Term(<<<<"i", "f">>, <<"(">>>> \o test.lexemes \o <<<<")">>>> \o consequent.lexemes
             \o <<<<"e", "l", "s", "e">>>> \o alternate.lexemes,
         [type |-> "IfStatement", test |-> test.ast,
          consequent |-> consequent.ast, alternate |-> alternate.ast])

\* { statements }
BlockTerm(statements) ==
    Term(<<<<"{">>>> \o LexemesOf(statements) \o <<<<"}">>>>,
         [type |-> "BlockStatement", body |-> Asts(statements)])

\* the statements S1, S2, S3 stand for
SimpleStatements ==
    { ExpressionStatementTerm(IdentifierTerm("x")),
      ExpressionStatementTerm(
          InfixTerm("AssignmentExpression", IdentifierTerm("y"), <<"=">>,
                    NumericTerm("1", 1))),
      BlockTerm(<<>>) }

IfCases ==
    LET a == IdentifierTerm("a")
        b == IdentifierTerm("b")
        c == IdentifierTerm("c")
        S == SimpleStatements
    IN  {Case(ProgramTerm(<<t>>)) : t \in
            {IfTerm(a, S1) : S1 \in S}
            \cup {IfElseTerm(a, S1, S2) : S1 \in S, S2 \in S}
            \cup {IfTerm(a, IfTerm(b, S1)) : S1 \in S}
            \cup {IfTerm(a, IfElseTerm(b, S1, S2)) : S1 \in S, S2 \in S}
            \cup {IfElseTerm(a, IfElseTerm(b, S1, S2), S3) : S1 \in S, S2 \in S, S3 \in S}
            \cup {IfElseTerm(a, BlockTerm(<<IfTerm(b, S1)>>), S2) : S1 \in S, S2 \in S}
            \cup {IfTerm(a, IfTerm(b, IfElseTerm(c, S1, S2))) : S1 \in S, S2 \in S}
            \cup {IfElseTerm(a, S1, IfElseTerm(b, S2, S3)) : S1 \in S, S2 \in S, S3 \in S}}

IfInputs == {c.text : c \in IfCases}

(***************************************************************************)
(* Member accesses and calls.                                              *)
(***************************************************************************)
MaxMembers == 2

MaxCalls == 2

\* a followed by at most n accesses, each of them . b or [ 0 ]
RECURSIVE MemberChains(_)
MemberChains(n) ==
    IF n = 0 THEN {IdentifierTerm("a")}
    ELSE LET shorter == MemberChains(n - 1)
         IN  shorter
             \cup {DotTerm(object, "b") : object \in shorter}
             \cup {IndexTerm(object, NumericTerm("0", 0)) : object \in shorter}

ArgumentLists == { <<>>, <<IdentifierTerm("x"), NumericTerm("1", 1)>> }

\* a callee followed by at most n argument lists
RECURSIVE CallChains(_, _)
CallChains(callees, n) ==
    IF n = 0 THEN callees
    ELSE LET shorter == CallChains(callees, n - 1)
         IN  shorter
             \cup {CallTerm(callee, arguments) :
                      callee \in shorter, arguments \in ArgumentLists}

MemberCallCases ==
    {ExpressionCase(t) : t \in CallChains(MemberChains(MaxMembers), MaxCalls)}

MemberInputs == {c.text : c \in MemberCallCases}

(***************************************************************************)
(* super.                                                                  *)
(***************************************************************************)
MaxSuperLexemes == 3

SuperVocabulary ==
    { <<"s", "u", "p", "e", "r">>, <<"(">>, <<")">>, <<";">>, <<"a">>, <<".">>,
      <<"n", "e", "w">>, <<"=">> }

\* super ( arguments )
SuperCallTerm(arguments) ==
    Term(<<<<"s", "u", "p", "e", "r">>, <<"(">>>> \o CommaList(arguments) \o <<<<")">>>>,
         [type |-> "CallExpression", callee |-> [type |-> "Super"],
          arguments |-> Asts(arguments)])

\* def name ( params ) { statements }
FunctionTerm(name, params, statements) ==
    Term(<<<<"d", "e", "f">>>> \o name.lexemes \o <<<<"(">>>> \o CommaList(params)
             \o <<<<")">>>> \o BlockTerm(statements).lexemes,
         [type |-> "FunctionDeclaration", name |-> name.ast, params |-> Asts(params),
          body |-> BlockTerm(statements).ast])

\* super ( x , y ) ; alone and in the body of a method
SuperCallCases ==
    LET x == IdentifierTerm("x")
        y == IdentifierTerm("y")
        call == ExpressionStatementTerm(SuperCallTerm(<<x, y>>))
    IN  { Case(ProgramTerm(<<call>>)),
          Case(ProgramTerm(<<ExpressionStatementTerm(SuperCallTerm(<<>>))>>)),
          Case(ProgramTerm(<<FunctionTerm(IdentifierTerm("f"), <<x, y>>, <<call>>)>>)) }

\* the texts of the claim in which no ( follows super
BareSuperTexts ==
    { Text(<<<<"s", "u", "p", "e", "r">>, <<";">>>>),
      Text(<<<<"s", "u", "p", "e", "r">>, <<".">>, <<"x">>, <<";">>>>),
      Text(<<<<"n", "e", "w">>, <<"s", "u", "p", "e", "r">>, <<"(">>, <<")">>, <<";">>>>),
      Text(<<<<"s", "u", "p", "e", "r">>, <<"=">>, <<"1">>, <<";">>>>),
      Text(<<<<"s", "u", "p", "e", "r">>>>) }

\* class Point3D of the runner's program
Point3D ==
    Text(<< <<"c", "l", "a", "s", "s">>, <<"P", "o", "i", "n", "t", "3", "D">>,
            <<"e", "x", "t", "e", "n", "d", "s">>, <<"P", "o", "i", "n", "t">>, <<"{">>,
            <<"d", "e", "f">>, <<"c", "o", "n", "s", "t", "r", "u", "c", "t", "o", "r">>,
            <<"(">>, <<"x">>, <<",">>, <<"y">>, <<",">>, <<"z">>, <<")">>, <<"{">>,
            <<"s", "u", "p", "e", "r">>, <<"(">>, <<"x">>, <<",">>, <<"y">>, <<")">>, <<";">>,
            <<"t", "h", "i", "s">>, <<".">>, <<"z">>, <<"=">>, <<"z">>, <<";">>,
            <<"}">>,
            <<"d", "e", "f">>, <<"c", "a", "l", "c">>, <<"(">>, <<")">>, <<"{">>,
            <<"r", "e", "t", "u", "r", "n">>, <<"s", "u", "p", "e", "r">>, <<"(">>, <<")">>,
            <<"+">>, <<"t", "h", "i", "s">>, <<".">>, <<"z">>, <<";">>,
            <<"}">>,
            <<"}">> >>)

SuperInputs ==
    {Text(s) : s \in OpenLexemeSeqs(SuperVocabulary, MaxSuperLexemes)}
        \cup {c.text : c \in SuperCallCases} \cup BareSuperTexts \cup {Point3D}

(***************************************************************************)
(* new.                                                                    *)
(***************************************************************************)
MaxNewLexemes == 4

NewVocabulary ==
    { <<"n", "e", "w">>, <<"a">>, <<".">>, <<"(">>, <<")">>, <<";">> }

\* new callee ( arguments )
NewTerm(callee, arguments) ==
    Term(<<<<"n", "e", "w">>>> \o callee.lexemes \o <<<<"(">>>> \o CommaList(arguments)
             \o <<<<")">>>>,
         [type |-> "NewExpression", callee |-> callee.ast,
          arguments |-> Asts(arguments)])

\* a, a . b, a . b . C and a [ 0 ]
NewCallees ==
    { IdentifierTerm("a"),
      DotTerm(IdentifierTerm("a"), "b"),
      DotTerm(DotTerm(IdentifierTerm("a"), "b"), "C"),
      IndexTerm(IdentifierTerm("a"), NumericTerm("0", 0)) }

NewArgumentLists ==
    { <<>>, <<IdentifierTerm("x")>>, <<IdentifierTerm("x"), NumericTerm("1", 1)>> }

\* new callee ( arguments ) ; and new callee ( arguments ) ( y ) ;
NewCases ==
    {ExpressionCase(NewTerm(callee, arguments)) :
        callee \in NewCallees, arguments \in NewArgumentLists}
    \cup {ExpressionCase(CallTerm(NewTerm(callee, arguments), <<IdentifierTerm("y")>>)) :
             callee \in NewCallees, arguments \in NewArgumentLists}

\* new with a callee and no argument list before the ;
NewWithoutArgumentsTexts ==
    { Text(<<<<"n", "e", "w">>, <<"F", "o", "o">>, <<";">>>>),
      Text(<<<<"n", "e", "w">>, <<"a">>, <<".">>, <<"b">>, <<";">>>>),
      Text(<<<<"n", "e", "w">>, <<"a">>, <<"[">>, <<"0">>, <<"]">>, <<";">>>>) }

NewInputs ==
    {Text(s) : s \in OpenLexemeSeqs(NewVocabulary, MaxNewLexemes)}
        \cup {c.text : c \in NewCases} \cup NewWithoutArgumentsTexts

(***************************************************************************)
(* Keywords, alone and inside words.                                       *)
(***************************************************************************)
\* the keyword rules of the table: the word and the token type
Keywords ==
    {[word |-> TokenizerSpec[i].regexp.arg, kind |-> TokenizerSpec[i].tokenType] :
        i \in {j \in DOMAIN TokenizerSpec : TokenizerSpec[j].regexp.re = "keyword"}}

\* what follows a keyword that stands alone
AloneSuffixes == { <<>>, <<" ">>, <<";">>, <<"(">>, <<"+", "1">>, <<"\n", "x">> }

\* word characters before a keyword that do not start with a digit
LetterPrefixes == { <<>>, <<"_">>, <<"x">>, <<"x", "1">> }

\* digits before a keyword
DigitPrefixes == { <<"1">>, <<"2", "0">> }

\* word characters after a keyword
WordSuffixes == { <<>>, <<"t", "e", "r">>, <<"1">>, <<"_">> }

\* a keyword with word characters before it, after it, or both
WordCases(prefixes) ==
    {[prefix |-> p, keyword |-> k, suffix |-> s, text |-> p \o k.word \o s] :
        p \in prefixes, k \in Keywords, s \in WordSuffixes}

KeywordInputs ==
    {k.word \o s : k \in Keywords, s \in AloneSuffixes}
        \cup {c.text : c \in WordCases(LetterPrefixes \cup DigitPrefixes)}

(***************************************************************************)
(* Texts of tokens, white space and comments, written without separators.  *)
(***************************************************************************)
MaxPieces == 3

Pieces ==
    { <<"a">>, <<"5">>, <<"+">>, <<";">>, <<"=">>, <<"/">>, <<"*">>,
      <<"\"", "s", " ", "\"">>,
      <<" ">>, <<"\n">>, <<"/", "/", "c">>, <<"/", "*", "c", "*", "/">> }

\* the texts of at most n pieces
RECURSIVE PieceTexts(_)
PieceTexts(n) ==
    IF n = 0 THEN {<<>>}
    ELSE LET shorter == PieceTexts(n - 1)
         IN  shorter \cup {t \o p : t \in shorter, p \in Pieces}

\* X + 5 > 10;
RoundTripText == <<"X", " ", "+", " ", "5", " ", ">", " ", "1", "0", ";">>

\* the program of the runner: the same on a line of its own, indented
RunnerProgram == <<"\n", " ", " ", " ", " ">> \o RoundTripText \o <<"\n">>

RoundTripTokens ==
    << [type |-> "IDENTIFIER", value |-> <<"X">>],
       [type |-> "ADDITIVE_OPERATOR", value |-> <<"+">>],
       [type |-> "NUMBER", value |-> <<"5">>],
       [type |-> "RELATIONAL_OPERATOR", value |-> <<">">>],
       [type |-> "NUMBER", value |-> <<"1", "0">>],
       [type |-> ";", value |-> <<";">>] >>

DrainInputs == PieceTexts(MaxPieces) \cup {RoundTripText, RunnerProgram}

\* text is made of white space, line comments and terminated block comments
RECURSIVE Skippable(_)
Skippable(text) ==
    \/ text = <<>>
    \/ /\ text # <<>>
       /\ text[1] \in WhiteSpace
       /\ Skippable(Tail(text))
    \/ /\ Len(text) >= 2
       /\ text[1] = "/" /\ text[2] = "/"
       /\ Skippable(SubSeq(text, 3 + SpanNotIn(LineTerminators, text, 3), Len(text)))
    \/ /\ Len(text) >= 2
       /\ text[1] = "/" /\ text[2] = "*"
       /\ FindCommentEnd(text, 3) > 0
       /\ Skippable(SubSeq(text, FindCommentEnd(text, 3) + 2, Len(text)))

(***************************************************************************)
(* Texts of white space and comments only.                                 *)
(***************************************************************************)
MaxSkipPieces == 3

LineComments == { <<"/", "/">>, <<"/", "/", "c">> }

BlockComments ==
    { <<"/", "*", "*", "/">>, <<"/", "*", "c", "*", "/">>,
      <<"/", "*", "c", "\n", "d", "*", "/">> }

SkipPieces == {<<" ">>, <<"\t">>, <<"\n">>} \cup LineComments \cup BlockComments

\* the sequences of at most n pieces
RECURSIVE SkipPieceSeqs(_)
SkipPieceSeqs(n) ==
    IF n = 0 THEN {<<>>}
    ELSE LET shorter == SkipPieceSeqs(n - 1)
         IN  shorter \cup {Append(s, p) : s \in shorter, p \in SkipPieces}

\* the pieces written one after the other
RECURSIVE Concat(_)
Concat(pieces) ==
    IF pieces = <<>> THEN <<>> ELSE Head(pieces) \o Concat(Tail(pieces))

\* every line comment is the last piece or has a line break right after it
LineCommentsEnded(pieces) ==
    \A i \in DOMAIN pieces :
        pieces[i] \in LineComments =>
            i = Len(pieces) \/ pieces[i + 1][1] \in LineTerminators

SkipCases == {[pieces |-> s, text |-> Concat(s)] : s \in SkipPieceSeqs(MaxSkipPieces)}

SkipInputs == {c.text : c \in SkipCases}

(***************************************************************************)
(* Operators of one and of two characters.                                 *)
(***************************************************************************)
Operator(text, kind) == [text |-> text, kind |-> kind]

TwoCharacterOperators ==
    { Operator(<<"<", "=">>, "RELATIONAL_OPERATOR"),
      Operator(<<">", "=">>, "RELATIONAL_OPERATOR"),
      Operator(<<"=", "=">>, "EQUALITY_OPERATOR"),
      Operator(<<"!", "=">>, "EQUALITY_OPERATOR"),
      Operator(<<"&", "&">>, "LOGICAL_AND"),
      Operator(<<"|", "|">>, "LOGICAL_OR"),
      Operator(<<"+", "=">>, "COMPLEX_ASSIGN"),
      Operator(<<"-", "=">>, "COMPLEX_ASSIGN"),
      Operator(<<"*", "=">>, "COMPLEX_ASSIGN"),
      Operator(<<"/", "=">>, "COMPLEX_ASSIGN") }

LoneOperators ==
    { Operator(<<"=">>, "SIMPLE_ASSIGN"),
      Operator(<<"!">>, "LOGICAL_NOT"),
      Operator(<<"<">>, "RELATIONAL_OPERATOR"),
      Operator(<<">">>, "RELATIONAL_OPERATOR"),
      Operator(<<"+">>, "ADDITIVE_OPERATOR"),
      Operator(<<"-">>, "ADDITIVE_OPERATOR"),
      Operator(<<"*">>, "MULTIPLICATIVE_OPERATOR"),
      Operator(<<"/">>, "MULTIPLICATIVE_OPERATOR") }

\* what stands before an operator: nothing, or the token a
OperatorPrefixes == { <<>>, <<"a">>, <<"a", " ">> }

\* what stands after an operator of two characters
OperatorSuffixes == { <<>>, <<" ">>, <<"a">>, <<"5">>, <<"(">>, <<"=">> }

\* what stands after a lone operator
LoneSuffixes == OperatorSuffixes \ {<<"=">>}

OperatorCases(operators, suffixes) ==
    {[prefix |-> p, operator |-> o, text |-> p \o o.text \o s] :
        p \in OperatorPrefixes, o \in operators, s \in suffixes}

OperatorInputs ==
    {c.text : c \in OperatorCases(TwoCharacterOperators, OperatorSuffixes)
                       \cup OperatorCases(LoneOperators, LoneSuffixes)}

(***************************************************************************)
(* A character followed by =.                                              *)
(***************************************************************************)
AssignCharacters ==
    {"*", "/", "+", "-", "\\", "=", "!", "<", ">", "a", "5", ".", ",", "(",
     ")", ";", " ", "&", "|", "%", "^"}

AssignSuffixes == { <<>>, <<"a">>, <<" ", "5">> }

AssignInputs ==
    {p \o <<c, "=">> \o s :
        p \in OperatorPrefixes, c \in AssignCharacters, s \in AssignSuffixes}
    \cup {p \o <<"=">> \o s : p \in OperatorPrefixes, s \in AssignSuffixes}

(***************************************************************************)
(* Texts for two Parser objects at work at the same time.                  *)
(***************************************************************************)
InstanceTexts ==
    { Text(<<<<"a">>, <<"=">>, <<"5">>, <<";">>>>),
      Text(<<<<"a">>, <<"+">>, <<"b">>, <<";">>>>),
      Text(<<<<"l", "e", "t">>, <<"a">>, <<";">>>>),
      Text(<<<<"5">>, <<"=">>, <<"@">>>>),
      Text(<<<<"a">>, <<"5">>>>),
      <<"a">>, <<"@">>, <<>> }

(***************************************************************************)
(* Texts for a further parse by a Parser that has parsed already.          *)
(***************************************************************************)
AgainTexts ==
    InstanceTexts
    \cup { Text(<<<<"a">>, <<";">>, <<"5">>, <<";">>>>),
           Text(<<<<"5">>, <<"=">>, <<"3">>, <<";">>>>),
           <<"a", ";", " ", "@">>, <<" ">> }

(***************************************************************************)
(* An access after a call.                                                 *)
(***************************************************************************)
CallCallees ==
    { IdentifierTerm("f"), DotTerm(IdentifierTerm("a"), "b"),
      IndexTerm(IdentifierTerm("a"), NumericTerm("0", 0)) }

\* calls of at most MaxCalls argument lists, and the calls of super
ClosedCalls ==
    (CallChains(CallCallees, MaxCalls) \ CallCallees)
        \cup {SuperCallTerm(<<>>), SuperCallTerm(<<IdentifierTerm("x")>>)}

\* . x and [ 0 ]
Accesses == { <<<<".">>, <<"x">>>>, <<<<"[">>, <<"0">>, <<"]">>>> }

\* what is written after the access
AfterAccess == { <<>>, <<<<"(">>, <<")">>>>, <<<<".">>, <<"y">>>>, <<<<"+">>, <<"1">>>> }

\* those of them without arguments
ClosedCallsWithoutArguments ==
    {c \in ClosedCalls : \A i \in DOMAIN c.lexemes : c.lexemes[i] # <<"x">>}

\* the places of an expression in a statement: what is written before it and
\* after it
ExpressionPlaces ==
    { [before |-> <<>>, after |-> <<<<";">>>>],
      [before |-> <<<<"a">>, <<"=">>>>, after |-> <<<<";">>>>],
      [before |-> <<<<"1">>, <<"+">>>>, after |-> <<<<";">>>>],
      [before |-> <<<<"l", "e", "t">>, <<"v">>, <<"=">>>>, after |-> <<<<";">>>>] }

\* the places inside an argument list, an index and parentheses
EnclosedPlaces ==
    { [before |-> <<<<"g">>, <<"(">>>>, after |-> <<<<")">>, <<";">>>>],
      [before |-> <<<<"a">>, <<"[">>>>, after |-> <<<<"]">>, <<";">>>>],
      [before |-> <<<<"(">>>>, after |-> <<<<")">>, <<";">>>>] }

\* a call, an access right after its ) and what follows, in the places
AccessTexts(places, calls) ==
    {Text(p.before \o c.lexemes \o a \o f \o p.after) :
        p \in places, c \in calls, a \in Accesses, f \in AfterAccess}

AccessAfterCallTexts ==
    AccessTexts(ExpressionPlaces, ClosedCalls)
        \cup AccessTexts(EnclosedPlaces, ClosedCallsWithoutArguments)

\* ( call ) . x, ( call ) [ 0 ] and ( call ) . x ( )
ParenthesizedCallCases ==
    {ExpressionCase(DotTerm(ParenthesizedTerm(c), "x")) :
        c \in ClosedCallsWithoutArguments}
        \cup {ExpressionCase(IndexTerm(ParenthesizedTerm(c), NumericTerm("0", 0))) :
                 c \in ClosedCallsWithoutArguments}
        \cup {ExpressionCase(CallTerm(DotTerm(ParenthesizedTerm(c), "x"), <<>>)) :
                 c \in ClosedCallsWithoutArguments}

\* the calls alone: call ;
ClosedCallCases == {ExpressionCase(c) : c \in ClosedCalls}

AccessInputs ==
    AccessAfterCallTexts
        \cup {c.text : c \in ParenthesizedCallCases \cup ClosedCallCases}

Inputs == LexemeInputs

(***************************************************************************)
(* The driver: a Tokenizer of its own, drained for diagnostics, and a      *)
(* Parser; both are given the same program text.                           *)
(***************************************************************************)
VARIABLES
    program,    \* the source text
    tokenizer,  \* the driver's Tokenizer object
    driver,     \* the token loop: [pc, token, printed]
    parser,     \* the Parser object
    result,     \* of the last parser.parse call: [ret, thrown, log], or null
    instances   \* further Parser objects and their Tokenizer objects, or null

vars == <<program, tokenizer, driver, parser, result, instances>>

\* the runner before its first call, with one of the texts as its program
InitWith(texts) ==
    /\ program \in texts
    /\ tokenizer = TokenizerNew
    /\ driver = [pc |-> "new", token |-> null, printed |-> <<>>]
    /\ parser = ParserNew
    /\ result = null
    /\ instances = null

Init == InitWith(Inputs)

\* tokenizer.init(program)
TokenizerInitCall ==
    /\ driver.pc = "new"
    /\ tokenizer' = TokenizerInit(program)
    /\ driver' = [driver EXCEPT !.pc = "init"]
    /\ UNCHANGED <<program, parser, result, instances>>

\* console.log(token) at the head of the loop body, before the next call
consoleLog ==
    IF driver.pc = "loop" THEN Append(driver.printed, driver.token) ELSE driver.printed

\* token = tokenizer.getNextToken(), after console.log of the token before it
TokenizerGetNextToken ==
    /\ driver.pc \in {"init", "loop"}
    /\ driver.pc = "loop" => ~IsNull(driver.token)
    /\ \E r \in {getNextToken(tokenizer)} :
           /\ tokenizer' = r.tk
           /\ driver' =
                IF ~IsNull(r.thrown)
                THEN [pc |-> "thrown", token |-> r.thrown, printed |-> consoleLog]
                ELSE [pc |-> "loop", token |-> r.token, printed |-> consoleLog]
    /\ UNCHANGED <<program, parser, result, instances>>

\* ast = parser.parse(program): the runner calls it once, after its token
\* loop; the REPL of the runner's comment calls it without a token loop
ParserParse ==
    /\ IsNull(result)
    /\ driver.pc = "new" \/ (driver.pc = "loop" /\ IsNull(driver.token))
    /\ \E r \in {parse(parser, program)} :
           /\ parser' = [_string |-> r.st._string, _tokenizer |-> r.st._tokenizer,
                         _lookahead |-> r.st._lookahead]
           /\ result' = [ret |-> r.ret, thrown |-> r.st.thrown, log |-> r.st.log]
    /\ UNCHANGED <<program, tokenizer, driver, instances>>

Next == TokenizerInitCall \/ TokenizerGetNextToken \/ ParserParse

Spec == Init /\ [][Next]_vars

\* the runner on the programs of each family
SpecBinary == InitWith(BinaryInputs) /\ [][Next]_vars

SpecAssignment == InitWith(AssignmentInputs) /\ [][Next]_vars

SpecIf == InitWith(IfInputs) /\ [][Next]_vars

SpecMember == InitWith(MemberInputs) /\ [][Next]_vars

SpecSuper == InitWith(SuperInputs) /\ [][Next]_vars

SpecNew == InitWith(NewInputs) /\ [][Next]_vars

SpecKeyword == InitWith(KeywordInputs) /\ [][Next]_vars

\* the driver's token loop has ended: driver.printed holds every token
Drained == driver.pc = "loop" /\ IsNull(driver.token)

SpecDrain == InitWith(DrainInputs) /\ [][Next]_vars

SpecSkip == InitWith(SkipInputs) /\ [][Next]_vars

SpecOperator == InitWith(OperatorInputs) /\ [][Next]_vars

SpecAssign == InitWith(AssignInputs) /\ [][Next]_vars

(***************************************************************************)
(* Two Parser objects, each given a text of its own, next to the runner's  *)
(* Tokenizer.  A Parser holds a reference to its Tokenizer object, which    *)
(* lives in the heap; its parse advances by one call of getNextToken at a  *)
(* time: the one of parse, then the one of each _eat.                      *)
(***************************************************************************)
Instances == {1, 2}

\* one Tokenizer object for every Parser
NewTokenizerShared(i) == 1

\* this._tokenizer = new Tokenizer() in the constructor of the Parser i: the
\* address of the new object
NewTokenizer(i) == i

\* new Parser(), the i-th
InstanceNew(i) ==
    [_string |-> <<>>, _tokenizer |-> NewTokenizer(i), _lookahead |-> undefined,
     pc |-> "new", eaten |-> 0, ret |-> null, thrown |-> null]

InitInstances ==
    /\ instances \in
          {[texts |-> <<s1, s2>>,
            heap |-> [a \in Instances |-> TokenizerNew],
            parsers |-> [i \in Instances |-> InstanceNew(i)]] :
              s1 \in InstanceTexts, s2 \in InstanceTexts}
    /\ program = instances.texts[1]
    /\ tokenizer = TokenizerNew
    /\ driver = [pc |-> "new", token |-> null, printed |-> <<>>]
    /\ parser = ParserNew
    /\ result = null

\* the Parser i once parse has read the first token
InstanceParseFirst(i, string, first) ==
    [instances EXCEPT
        !.heap[instances.parsers[i]._tokenizer] = first.tk,
        !.parsers[i] =
            [@ EXCEPT !._string = string,
                      !._lookahead = IF IsNull(first.thrown) THEN first.token ELSE @,
                      !.thrown = first.thrown,
                      !.pc = IF IsNull(first.thrown) THEN "parsing" ELSE "done"]]

\* parse(string) of the Parser i, up to return this.Program()
InstanceParse(i) ==
    /\ instances.parsers[i].pc = "new"
    /\ instances' = InstanceParseFirst(i, instances.texts[i],
                                       getNextToken(TokenizerInit(instances.texts[i])))
    /\ UNCHANGED <<program, tokenizer, driver, parser, result>>

\* the Parser i with the Tokenizer object it refers to
InstanceState(i) ==
    [_string |-> instances.parsers[i]._string,
     _tokenizer |-> instances.heap[instances.parsers[i]._tokenizer],
     _lookahead |-> instances.parsers[i]._lookahead,
     thrown |-> null, log |-> <<>>]

\* the Parser i after the _eat that gave r
InstanceEaten(i, r) ==
    [instances EXCEPT
        !.heap[instances.parsers[i]._tokenizer] = r.st._tokenizer,
        !.parsers[i] =
            [@ EXCEPT !._lookahead = r.st._lookahead,
                      !.thrown = r.st.thrown,
                      !.eaten = @ + 1,
                      !.pc = IF r.failed THEN "done" ELSE "parsing"]]

\* the next _eat of the parse of the Parser i: the productions ask for the
\* token type they ask for in lone, the parse of the same text by a Parser
\* at work alone
InstanceEatNext(i, lone) ==
    /\ instances.parsers[i].eaten < Len(lone.st.log)
    /\ instances' =
          InstanceEaten(i, _eat(InstanceState(i),
                                lone.st.log[instances.parsers[i].eaten + 1].tokenType))

InstanceEat(i) ==
    /\ instances.parsers[i].pc = "parsing"
    /\ \E lone \in {parse(ParserNew, instances.texts[i])} : InstanceEatNext(i, lone)
    /\ UNCHANGED <<program, tokenizer, driver, parser, result>>

\* the parse of the Parser i ends after its last _eat
InstanceEnd(i, lone) ==
    /\ instances.parsers[i].eaten = Len(lone.st.log)
    /\ instances' =
          [instances EXCEPT
              !.parsers[i] = [@ EXCEPT !.ret = lone.ret,
                                       !.thrown = lone.st.thrown,
                                       !.pc = "done"]]

InstanceReturn(i) ==
    /\ instances.parsers[i].pc = "parsing"
    /\ \E lone \in {parse(ParserNew, instances.texts[i])} : InstanceEnd(i, lone)
    /\ UNCHANGED <<program, tokenizer, driver, parser, result>>

NextInstances ==
    \/ TokenizerInitCall
    \/ TokenizerGetNextToken
    \/ \E i \in Instances : InstanceParse(i)
    \/ \E i \in Instances : InstanceEat(i)
    \/ \E i \in Instances : InstanceReturn(i)

SpecInstances == InitInstances /\ [][NextInstances]_vars

\* a further parser.parse(string) on the Parser that has parsed already
ParserParseAgain ==
    /\ ~IsNull(result)
    /\ \E string \in AgainTexts :
          \E r \in {parse(parser, string)} :
              /\ program' = string
              /\ parser' = [_string |-> r.st._string, _tokenizer |-> r.st._tokenizer,
                            _lookahead |-> r.st._lookahead]
              /\ result' = [ret |-> r.ret, thrown |-> r.st.thrown, log |-> r.st.log]
    /\ UNCHANGED <<tokenizer, driver, instances>>

NextHistory == ParserParse \/ ParserParseAgain

SpecHistory == Init /\ [][NextHistory]_vars

SpecAccess == InitWith(AccessInputs) /\ [][Next]_vars

Parsed == ~IsNull(result)

Returned == Parsed /\ IsNull(result.thrown)

Threw(name) == Parsed /\ ~IsNull(result.thrown) /\ result.thrown.name = name


(***************************************************************************)
(* Reading an AST.  Children lists the nodes held by the fields of a node, *)
(* in the order the code fills them; Occurrences lists every node of a     *)
(* tree with the type of its parent and the field that holds it.           *)
(***************************************************************************)
Child(field, node) == [field |-> field, node |-> node]

ChildList(field, list) == [i \in 1..Len(list) |-> Child(field, list[i])]

\* the child in a field the node may lack
ChildIn(field, node) ==
    IF field \in DOMAIN node THEN <<Child(field, node[field])>> ELSE <<>>

Children(node) ==
    CASE node.type \in {"Program", "BlockStatement"} -> ChildList("body", node.body)
      [] node.type = "ExpressionStatement" -> <<Child("expression", node.expression)>>
      [] node.type = "IfStatement" ->
            <<Child("test", node.test), Child("consequent", node.consequent),
              Child("alternate", node.alternate)>>
      [] node.type = "FunctionDeclaration" ->
            <<Child("name", node.name)>> \o ChildList("params", node.params)
                \o <<Child("body", node.body)>>
      [] node.type = "ReturnStatement" -> <<Child("argument", node.argument)>>
      [] node.type = "ClassDeclaration" ->
            <<Child("id", node.id), Child("superClass", node.superClass),
              Child("body", node.body)>>
      [] node.type = "WhileStatement" ->
            <<Child("test", node.test), Child("body", node.body)>>
      [] node.type = "DoStatement" ->
            <<Child("body", node.body), Child("test", node.test)>>
      [] node.type = "ForStatement" ->
            <<Child("init", node.init), Child("test", node.test),
              Child("update", node.update), Child("body", node.body)>>
      [] node.type = "VariableStatement" -> ChildList("declarations", node.declarations)
      [] node.type = "VariableDeclaration" ->
            <<Child("id", node.id), Child("init", node.init)>>
      [] node.type \in {"AssignmentExpression", "LogicalExpression", "BinaryExpression"} ->
            ChildIn("left", node) \o ChildIn("right", node)
      [] node.type = "UnaryExpression" -> <<Child("argument", node.argument)>>
      [] node.type = "MemberExpression" ->
            <<Child("object", node.object), Child("property", node.property)>>
      [] node.type \in {"CallExpression", "NewExpression"} ->
            <<Child("callee", node.callee)>> \o ChildList("arguments", node.arguments)
      [] OTHER -> <<>>

RECURSIVE Occurrences(_, _, _), OccurrencesIn(_, _)
Occurrences(node, parent, field) ==
    IF IsNull(node) THEN <<>>
    ELSE <<[node |-> node, parent |-> parent, field |-> field]>>
             \o OccurrencesIn(Children(node), node.type)

OccurrencesIn(children, parent) ==
    IF Len(children) = 0 THEN <<>>
    ELSE Occurrences(Head(children).node, parent, Head(children).field)
             \o OccurrencesIn(Tail(children), parent)

\* every node of the tree parse returned
ReturnedNodes == Occurrences(result.ret, "", "")

\* the tokens the Tokenizer makes of a text, up to its end or its first failure
RECURSIVE Drain(_)
Drain(tk) ==
    LET next == getNextToken(tk)
    IN  IF ~IsNull(next.thrown) \/ IsNull(next.token) THEN <<>>
        ELSE <<next.token>> \o Drain(next.tk)

TokensOf(string) == Drain(TokenizerInit(string))


(***************************************************************************)
(* What parse does, claim by claim.                                        *)
(***************************************************************************)
\* C1: parse returns a node of type Program or fails with a SyntaxError, and
\* a failing parse returns no node.
ParseReturnsProgramOrSyntaxError ==
    Parsed =>
        \/ IsNull(result.thrown) /\ ~IsNull(result.ret) /\ result.ret.type = "Program"
        \/ Threw("SyntaxError") /\ IsNull(result.ret)

\* the empty text makes parse fail with a TypeError
EmptyTextTypeError == Parsed /\ program = <<>> /\ Threw("TypeError")

\* the tokenizer as _eat found it in the call an entry of the log records
TokenizerAt(entry) == [_string |-> program, _cursor |-> entry.cursor]

\* an _eat that threw left the lookahead and the cursor as they were
EatUnchanged(entry) ==
    /\ entry.lookaheadAfter = entry.lookahead
    /\ entry.cursorAfter = entry.cursor
    /\ IsNull(entry.ret)

\* _eat with no lookahead left
EatAtEnd(entry) ==
    /\ entry.thrown = SyntaxError("Unexpected end of input", <<>>, entry.tokenType)
    /\ EatUnchanged(entry)

\* _eat with a lookahead of another type
EatMismatch(entry) ==
    /\ entry.thrown = SyntaxError("Unexpected token", entry.lookahead.value,
                                  entry.tokenType)
    /\ EatUnchanged(entry)

\* _eat returning the lookahead, the next token in its place
EatReturned(entry) ==
    LET next == getNextToken(TokenizerAt(entry))
    IN  /\ IsNull(next.thrown)
        /\ IsNull(entry.thrown)
        /\ entry.ret = entry.lookahead
        /\ entry.lookaheadAfter = next.token
        /\ entry.cursorAfter = next.tk._cursor

\* _eat failing with the error of the Tokenizer, the lookahead as it was
EatTokenizerThrew(entry) ==
    LET next == getNextToken(TokenizerAt(entry))
    IN  /\ ~IsNull(next.thrown)
        /\ entry.thrown = next.thrown
        /\ entry.thrown.name = "SyntaxError"
        /\ IsNull(entry.ret)
        /\ entry.lookaheadAfter = entry.lookahead
        /\ entry.cursorAfter = next.tk._cursor

\* C2 as stated: every _eat call has one of three outcomes: no lookahead,
\* SyntaxError "end of input"; a lookahead of another type, SyntaxError
\* "unexpected token"; otherwise it returns the lookahead and the next token
\* takes its place.  A failing call leaves lookahead and cursor unchanged.
EatThreeOutcomes ==
    Parsed =>
        \A i \in DOMAIN result.log :
            LET entry == result.log[i]
            IN  IF IsNull(entry.lookahead) THEN EatAtEnd(entry)
                ELSE IF entry.lookahead.type # entry.tokenType THEN EatMismatch(entry)
                ELSE EatReturned(entry)

\* C2 amended: a fourth outcome: the lookahead has the expected type and the
\* Tokenizer throws on the next token; _eat then fails with the Tokenizer's
\* SyntaxError, the lookahead unchanged, the cursor where the Tokenizer
\* stopped.
EatFourOutcomes ==
    Parsed =>
        \A i \in DOMAIN result.log :
            LET entry == result.log[i]
            IN  IF IsNull(entry.lookahead) THEN EatAtEnd(entry)
                ELSE IF entry.lookahead.type # entry.tokenType THEN EatMismatch(entry)
                ELSE EatReturned(entry) \/ EatTokenizerThrew(entry)

\* an _eat of the expected token failed in the Tokenizer, past white space
EatFailedInTokenizer ==
    /\ Parsed
    /\ \E i \in DOMAIN result.log :
          /\ ~IsNull(result.log[i].lookahead)
          /\ result.log[i].lookahead.type = result.log[i].tokenType
          /\ EatTokenizerThrew(result.log[i])
          /\ result.log[i].cursorAfter > result.log[i].cursor
    /\ \E i \in DOMAIN result.log : EatReturned(result.log[i])

\* the node of a name
Name(c) == [type |-> "Identifier", name |-> <<c>>]

\* C3: an assignment operator after a left side that is neither an Identifier
\* nor a MemberExpression makes parse fail with a SyntaxError and no AST; after
\* an Identifier or a MemberExpression the assignment is parsed.
AssignmentTargetChecked ==
    Parsed =>
        /\ program \in InvalidTargetTexts => Threw("SyntaxError") /\ IsNull(result.ret)
        /\ \A c \in ValidTargetCases :
              program = c.text => Returned /\ result.ret = c.ast
        /\ Returned =>
              \A i \in DOMAIN ReturnedNodes :
                  ReturnedNodes[i].node.type = "AssignmentExpression" =>
                      ReturnedNodes[i].node.left.type \in {"Identifier", "MemberExpression"}

\* 5 = 3 ; is rejected by the check of the target
LiteralTargetRejected ==
    /\ Parsed
    /\ program = <<"5", " ", "=", " ", "3", " ", ";">>
    /\ Threw("SyntaxError")
    /\ result.thrown.message = "Invalid left-hand side in assignment expression"
    /\ IsNull(result.ret)

\* C4: every BinaryExpression and LogicalExpression node of a returned AST
\* has the fields operator, left and right, and a chain of equality operators
\* folds to the left.
BinaryNodesComplete ==
    Returned =>
        /\ \A i \in DOMAIN ReturnedNodes :
              ReturnedNodes[i].node.type \in {"BinaryExpression", "LogicalExpression"} =>
                  {"operator", "left", "right"} \subseteq DOMAIN ReturnedNodes[i].node
        /\ \A c \in EqualityCases : program = c.text => result.ret = c.ast

\* a == b ; returns a BinaryExpression without the field left
EqualityNodeWithoutLeft ==
    /\ Returned
    /\ program = <<"a", " ", "=", "=", " ", "b", " ", ";">>
    /\ result.ret.body[1].expression =
          [type |-> "BinaryExpression", operator |-> <<"=", "=">>, right |-> Name("b")]

\* C5: x op1 y op2 z with op1 and op2 of one level (additive, multiplicative,
\* relational, &&, ||) parses to Node(op2, Node(op1, x, y), z).
LeftAssociative ==
    Parsed =>
        \A c \in LeftAssociativeCases :
            program = c.text => Returned /\ result.ret = c.ast

\* a - b - c ; yields BinaryExpression(-, BinaryExpression(-, a, b), c)
SubtractionChainParsed ==
    /\ Returned
    /\ program = <<"a", " ", "-", " ", "b", " ", "-", " ", "c", " ", ";">>
    /\ result.ret.body[1].expression =
          [type |-> "BinaryExpression", operator |-> <<"-">>,
           left |-> [type |-> "BinaryExpression", operator |-> <<"-">>,
                     left |-> Name("a"), right |-> Name("b")],
           right |-> Name("c")]

\* C6: t1 op1 t2 op2 e with assignment operators op1, op2 and valid targets
\* t1, t2 parses to AssignmentExpression(op1, t1, AssignmentExpression(op2, t2, e)).
RightAssociative ==
    Parsed =>
        \A c \in RightAssociativeCases :
            program = c.text => Returned /\ result.ret = c.ast

\* a = b = c ; yields AssignmentExpression(=, a, AssignmentExpression(=, b, c))
AssignmentChainParsed ==
    /\ Returned
    /\ program = <<"a", " ", "=", " ", "b", " ", "=", " ", "c", " ", ";">>
    /\ result.ret.body[1].expression =
          [type |-> "AssignmentExpression", operator |-> <<"=">>,
           left |-> Name("a"),
           right |-> [type |-> "AssignmentExpression", operator |-> <<"=">>,
                      left |-> Name("b"), right |-> Name("c")]]

\* C7 as stated: in x op1 y op2 z with operators of two of the levels
\* assignment, ||, &&, relational, additive, multiplicative, the operator of
\* the tighter level takes its two neighbours and its node is an operand of
\* the other, whichever comes first; a parenthesised expression is one operand.
PrecedenceOfAllLevels ==
    Parsed =>
        \A c \in AllPrecedenceCases \cup ParenthesizedCases :
            program = c.text => Returned /\ result.ret = c.ast

\* C7 amended: so it is when op2 is a binary operator; x op1 y op2 z with op1
\* binary and op2 an assignment operator fails with the SyntaxError of an
\* invalid assignment target.
PrecedenceOfBinaryLevels ==
    Parsed =>
        /\ \A c \in BinarySecondCases \cup ParenthesizedCases :
              program = c.text => Returned /\ result.ret = c.ast
        /\ program \in AssignmentSecondTexts =>
              /\ Threw("SyntaxError")
              /\ result.thrown.message = "Invalid left-hand side in assignment expression"
              /\ IsNull(result.ret)

\* 2 + 3 * 4 ; yields BinaryExpression(+, 2, BinaryExpression(*, 3, 4))
ProductInSumParsed ==
    /\ Returned
    /\ program = <<"2", " ", "+", " ", "3", " ", "*", " ", "4", " ", ";">>
    /\ result.ret.body[1].expression =
          [type |-> "BinaryExpression", operator |-> <<"+">>,
           left |-> [type |-> "NumericLiteral", value |-> 2],
           right |-> [type |-> "BinaryExpression", operator |-> <<"*">>,
                      left |-> [type |-> "NumericLiteral", value |-> 3],
                      right |-> [type |-> "NumericLiteral", value |-> 4]]]

\* C8: an else belongs to the nearest if before it that has none: in
\* if ( a ) if ( b ) S1 else S2 the outer IfStatement has alternate null and
\* the inner one the alternate S2; an if without else has alternate null.
ElseOfNearestIf ==
    Parsed =>
        \A c \in IfCases : program = c.text => Returned /\ result.ret = c.ast

\* if ( a ) if ( b ) x ; else { } is parsed with the else in the inner if
DanglingElseParsed ==
    /\ Returned
    /\ program = Text(<< <<"i", "f">>, <<"(">>, <<"a">>, <<")">>,
                         <<"i", "f">>, <<"(">>, <<"b">>, <<")">>, <<"x">>, <<";">>,
                         <<"e", "l", "s", "e">>, <<"{">>, <<"}">> >>)
    /\ result.ret.body =
          << [type |-> "IfStatement", test |-> Name("a"),
              consequent |->
                  [type |-> "IfStatement", test |-> Name("b"),
                   consequent |-> [type |-> "ExpressionStatement",
                                   expression |-> Name("x")],
                   alternate |-> [type |-> "BlockStatement", body |-> <<>>]],
              alternate |-> null] >>

\* C9: each . name and each [ expr ] wraps all that was parsed before it in
\* a MemberExpression (computed FALSE and TRUE), and each argument list
\* after them wraps it in a CallExpression.
MemberAndCallChains ==
    Parsed =>
        \A c \in MemberCallCases : program = c.text => Returned /\ result.ret = c.ast

\* a . b [ 0 ] ( ) ; yields the call of a computed access of a . b
MemberCallParsed ==
    /\ Returned
    /\ program = Text(<< <<"a">>, <<".">>, <<"b">>, <<"[">>, <<"0">>, <<"]">>,
                         <<"(">>, <<")">>, <<";">> >>)
    /\ result.ret.body[1].expression =
          [type |-> "CallExpression",
           callee |->
               [type |-> "MemberExpression", computed |-> TRUE,
                object |-> [type |-> "MemberExpression", computed |-> FALSE,
                            object |-> Name("a"), property |-> Name("b")],
                property |-> [type |-> "NumericLiteral", value |-> 0]],
           arguments |-> <<>>]

\* a super token with no ( after it
BareSuper(tokens) ==
    \E i \in DOMAIN tokens :
        /\ tokens[i].type = "super"
        /\ i = Len(tokens) \/ tokens[i + 1].type # "("

\* C10: in a returned AST a Super node is the callee of a CallExpression and
\* nothing else; a text with a super token that no ( follows fails with a
\* SyntaxError; super ( x , y ) ; in a method body is
\* CallExpression(Super, [x, y]).
SuperOnlyCalled ==
    Parsed =>
        /\ Returned =>
              \A i \in DOMAIN ReturnedNodes :
                  ReturnedNodes[i].node.type = "Super" =>
                      /\ ReturnedNodes[i].parent = "CallExpression"
                      /\ ReturnedNodes[i].field = "callee"
        /\ BareSuper(TokensOf(program)) => Threw("SyntaxError") /\ IsNull(result.ret)
        /\ program \in BareSuperTexts => Threw("SyntaxError") /\ IsNull(result.ret)
        /\ \A c \in SuperCallCases : program = c.text => Returned /\ result.ret = c.ast

\* def f ( x , y ) { super ( x , y ) ; } is parsed with the call of Super
SuperCallInMethodParsed ==
    /\ Returned
    /\ program = Text(<< <<"d", "e", "f">>, <<"f">>, <<"(">>, <<"x">>, <<",">>, <<"y">>,
                         <<")">>, <<"{">>, <<"s", "u", "p", "e", "r">>, <<"(">>, <<"x">>,
                         <<",">>, <<"y">>, <<")">>, <<";">>, <<"}">> >>)
    /\ result.ret.body[1].body.body[1].expression =
          [type |-> "CallExpression", callee |-> [type |-> "Super"],
           arguments |-> <<Name("x"), Name("y")>>]

\* a new token before an identifier that no ( . or [ follows
NewWithoutArguments(tokens) ==
    \E i \in DOMAIN tokens :
        /\ tokens[i].type = "new"
        /\ i + 2 <= Len(tokens)
        /\ tokens[i + 1].type = "IDENTIFIER"
        /\ tokens[i + 2].type \notin {"(", ".", "["}

\* C11: new callee ( arguments ) is a NewExpression whose callee is the
\* member expression and whose arguments are the list after it, also when
\* another argument list follows (that one makes a CallExpression of the
\* NewExpression); a new whose callee is followed by neither ( nor a member
\* access, as in new Foo ; fails with a SyntaxError and no AST.
NewHasArguments ==
    Parsed =>
        /\ \A c \in NewCases : program = c.text => Returned /\ result.ret = c.ast
        /\ program \in NewWithoutArgumentsTexts =>
               Threw("SyntaxError") /\ IsNull(result.ret)
        /\ NewWithoutArguments(TokensOf(program)) =>
               Threw("SyntaxError") /\ IsNull(result.ret)

\* new a . b . C ( x ) ; is parsed with the member expression as callee
NewMemberCalleeParsed ==
    /\ Returned
    /\ program = Text(<< <<"n", "e", "w">>, <<"a">>, <<".">>, <<"b">>, <<".">>, <<"C">>,
                         <<"(">>, <<"x">>, <<")">>, <<";">> >>)
    /\ result.ret.body[1].expression =
          [type |-> "NewExpression",
           callee |->
               [type |-> "MemberExpression", computed |-> FALSE,
                object |-> [type |-> "MemberExpression", computed |-> FALSE,
                            object |-> Name("a"), property |-> Name("b")],
                property |-> Name("C")],
           arguments |-> <<Name("x")>>]

\* the driver's getNextToken call has thrown
TokenizerThrew == driver.pc = "thrown"

\* C12: when no rule matches the text at the cursor, getNextToken fails with
\* a LexicalError, a kind of error other than the parser's SyntaxError, that
\* carries the offending character and the cursor position.
LexicalErrorThrown ==
    TokenizerThrew =>
        /\ driver.token.name = "LexicalError"
        /\ driver.token.name # SyntaxError("", <<>>, nullType).name
        /\ driver.token.actual = <<program[tokenizer._cursor + 1]>>
        /\ "cursor" \in DOMAIN driver.token
        /\ driver.token.cursor = tokenizer._cursor

\* on a @ the tokenizer throws a SyntaxError that names @ and no position
UnmatchedTextSyntaxError ==
    /\ TokenizerThrew
    /\ program = Text(<< <<"a">>, <<"@">> >>)
    /\ driver.token = SyntaxError("Unexpected token", <<"@">>, nullType)
    /\ tokenizer._cursor = 2

KeywordKinds ==
    {"let", "if", "else", "true", "false", "null", "class", "this", "extends",
     "super", "new", "while", "do", "for", "def", "return"}

\* each of the 16 keywords, followed by the end of the text or by a
\* character that is not a word character, is a token of its own kind
KeywordAlone ==
    /\ {k.kind : k \in Keywords} = KeywordKinds
    /\ Cardinality(Keywords) = Cardinality(KeywordKinds)
    /\ \A k \in Keywords, s \in AloneSuffixes :
           program = k.word \o s =>
               /\ Len(driver.printed) >= 1
               /\ driver.printed[1] = [type |-> k.kind, value |-> k.word]

\* a keyword with the word characters of prefixes before it and word
\* characters after it is one IDENTIFIER token, the whole word
WholeWord(prefixes) ==
    \A c \in WordCases(prefixes) :
        (program = c.text /\ (c.prefix # <<>> \/ c.suffix # <<>>)) =>
            driver.printed = <<[type |-> "IDENTIFIER", value |-> c.text]>>

\* a keyword after digits: the digits are a NUMBER token and the rest is
\* tokenized on its own, as the keyword when nothing follows it
DigitsThenWord ==
    \A c \in WordCases(DigitPrefixes) :
        program = c.text =>
            driver.printed =
                << [type |-> "NUMBER", value |-> c.prefix],
                   IF c.suffix = <<>>
                   THEN [type |-> c.keyword.kind, value |-> c.keyword.word]
                   ELSE [type |-> "IDENTIFIER", value |-> c.keyword.word \o c.suffix] >>

\* C13 as stated: a keyword standing alone is a token of its kind, never an
\* IDENTIFIER; with word characters (letters, digits, underscore) right
\* after or before it, the whole word is one IDENTIFIER token.
KeywordOrWholeWord ==
    Drained => KeywordAlone /\ WholeWord(LetterPrefixes \cup DigitPrefixes)

\* C13, amended: a keyword standing alone is a token of its kind, never an
\* IDENTIFIER; with word characters right after it, or before it in a word
\* that does not start with a digit, the whole word is one IDENTIFIER
\* token; after digits, the digits are a NUMBER token and the keyword is
\* tokenized as if the text started at it.
KeywordOrWordNotAfterDigits ==
    Drained => KeywordAlone /\ WholeWord(LetterPrefixes) /\ DigitsThenWord

\* letter is one IDENTIFIER
LetterIsIdentifier ==
    /\ Drained
    /\ program = <<"l", "e", "t", "t", "e", "r">>
    /\ driver.printed = <<[type |-> "IDENTIFIER", value |-> program]>>

\* a step of the driver's token loop: tokenizer.getNextToken() has returned
GetNextTokenReturns ==
    /\ driver.pc \in {"init", "loop"}
    /\ driver' # driver
    /\ driver'.pc = "loop"

\* the token of the step is the text between start and the new cursor, and
\* what lies between the old cursor and start is white space and comments
TokenFromSource(start) ==
    /\ start >= tokenizer._cursor
    /\ driver'.token.value = SubSeq(program, start + 1, tokenizer'._cursor)
    /\ Skippable(SubSeq(program, tokenizer._cursor + 1, start))

\* C14: each call of the drain returns a token that starts at or after the
\* cursor the call found, is exactly the source text up to the cursor the
\* call leaves, and is separated from the cursor the call found by white
\* space and comments only; the call that returns null leaves the cursor at
\* the end, over white space and comments only; and X + 5 > 10; drains to
\* IDENTIFIER X, ADDITIVE_OPERATOR +, NUMBER 5, RELATIONAL_OPERATOR >,
\* NUMBER 10, ;.
DrainInSourceOrder ==
    [][ /\ GetNextTokenReturns =>
            IF IsNull(driver'.token)
            THEN /\ tokenizer'._cursor = Len(program)
                 /\ Skippable(SubSeq(program, tokenizer._cursor + 1, Len(program)))
            ELSE TokenFromSource(tokenizer'._cursor - Len(driver'.token.value))
        /\ (Drained' /\ program \in {RoundTripText, RunnerProgram}) =>
               driver'.printed = RoundTripTokens ]_vars

\* the runner's program has been drained to its six tokens
RoundTripDrained ==
    /\ Drained
    /\ program = RunnerProgram
    /\ driver.printed = RoundTripTokens

\* on the texts of the cases the driver's first getNextToken call does not
\* throw and returns null with the cursor at the end, and a further call
\* does the same
SkippedAtOnce(cases) ==
    \A c \in cases :
        program = c.text =>
            /\ ~TokenizerThrew
            /\ driver.pc = "loop" =>
                   /\ Drained
                   /\ driver.printed = <<>>
                   /\ tokenizer._cursor = Len(program)
                   /\ getNextToken(tokenizer) =
                          [tk |-> tokenizer, token |-> null, thrown |-> null]

OneToken(cases) ==
    \A c \in cases :
        program = c.text =>
            LET k == IF c.prefix = <<>> THEN 1 ELSE 2
            IN  /\ Len(driver.printed) >= k
                /\ driver.printed[k] = [type |-> c.operator.kind, value |-> c.operator.text]

\* C16: each of <= >= == != && || += -= *= /= at the cursor is one token
\* that holds both characters, of the kind RELATIONAL_OPERATOR,
\* EQUALITY_OPERATOR, LOGICAL_AND, LOGICAL_OR or COMPLEX_ASSIGN, and a lone
\* = ! < > + - * / is SIMPLE_ASSIGN, LOGICAL_NOT, RELATIONAL_OPERATOR,
\* ADDITIVE_OPERATOR or MULTIPLICATIVE_OPERATOR.
FirstMatchingRuleWins ==
    Drained =>
        /\ OneToken(OperatorCases(TwoCharacterOperators, OperatorSuffixes))
        /\ OneToken(OperatorCases(LoneOperators, LoneSuffixes))

\* a<=5 is the three tokens a, <= and 5
LessOrEqualOneToken ==
    /\ Drained
    /\ program = <<"a", "<", "=", "5">>
    /\ driver.printed = << [type |-> "IDENTIFIER", value |-> <<"a">>],
                           [type |-> "RELATIONAL_OPERATOR", value |-> <<"<", "=">>],
                           [type |-> "NUMBER", value |-> <<"5">>] >>

ComplexAssignTexts == { <<"*", "=">>, <<"/", "=">>, <<"+", "=">>, <<"-", "=">> }

\* C17: a COMPLEX_ASSIGN token is one of the four texts *= /= += -= and a
\* SIMPLE_ASSIGN token is the text =.
ComplexAssignOnlyFourTexts ==
    \A i \in DOMAIN driver.printed :
        /\ driver.printed[i].type = "COMPLEX_ASSIGN"
              => driver.printed[i].value \in ComplexAssignTexts
        /\ driver.printed[i].type = "SIMPLE_ASSIGN"
              => driver.printed[i].value = <<"=">>

\* a backslash followed by = is one COMPLEX_ASSIGN token
BackslashComplexAssign ==
    /\ Drained
    /\ program = <<"\\", "=">>
    /\ driver.printed = << [type |-> "COMPLEX_ASSIGN", value |-> <<"\\", "=">>] >>

\* the k-th token the Tokenizer gives for the drained program, null once the
\* text is exhausted
Pulled(k) == IF k <= Len(driver.printed) THEN driver.printed[k] ELSE null

\* the parser's Tokenizer with its cursor at c
ParserTokenizerAt(c) == [_string |-> program, _cursor |-> c]

\* the i-th _eat of the parse found the parser as the one before it left it
EatFollows(log, i) ==
    IF i = 1
    THEN /\ log[1].cursor = getNextToken(TokenizerInit(program)).tk._cursor
         /\ log[1].lookahead = getNextToken(TokenizerInit(program)).token
    ELSE /\ log[i - 1].outcome = "return"
         /\ log[i].cursor = log[i - 1].cursorAfter
         /\ log[i].lookahead = log[i - 1].lookaheadAfter

\* an _eat that returns pulls one token, an _eat that throws pulls none
EatPullsOne(e) ==
    IF e.outcome = "return"
    THEN /\ e.ret = e.lookahead
         /\ ~IsNull(getNextToken(ParserTokenizerAt(e.cursor)).thrown) = FALSE
         /\ e.lookaheadAfter = getNextToken(ParserTokenizerAt(e.cursor)).token
         /\ e.cursorAfter = getNextToken(ParserTokenizerAt(e.cursor)).tk._cursor
    ELSE IF e.outcome = "throw"
    THEN e.lookaheadAfter = e.lookahead /\ e.cursorAfter = e.cursor
    ELSE /\ e.lookaheadAfter = e.lookahead
         /\ ~IsNull(getNextToken(ParserTokenizerAt(e.cursor)).thrown)

\* the parser is left as its last _eat left it, or as parse primed it
LeftAsLastEat(log) ==
    IF log = <<>>
    THEN parser._tokenizer = getNextToken(TokenizerInit(program)).tk
    ELSE /\ parser._tokenizer._cursor = log[Len(log)].cursorAfter
         /\ parser._lookahead = log[Len(log)].lookaheadAfter

\* C18: parse pulls one token, each _eat that returns pulls one more and
\* nothing else moves the Tokenizer or the lookahead: the k-th token
\* consumed is the k-th token of the text and the lookahead after it is the
\* token k + 1, null when the text is exhausted.
OneTokenLookahead ==
    Parsed =>
        /\ \A i \in DOMAIN result.log :
              /\ EatFollows(result.log, i)
              /\ EatPullsOne(result.log[i])
              /\ Drained /\ result.log[i].outcome = "return"
                    => /\ result.log[i].ret = Pulled(i)
                       /\ result.log[i].lookaheadAfter = Pulled(i + 1)
        /\ LeftAsLastEat(result.log)

\* a parse that consumed the three tokens of a = 5 and was left with the
\* null lookahead of the end of the text
ThreeTokensConsumed ==
    /\ Parsed
    /\ Drained
    /\ Len(result.log) = 3
    /\ \A i \in 1..3 : result.log[i].outcome = "return"
    /\ result.log[2].lookaheadAfter = [type |-> "NUMBER", value |-> <<"5">>]
    /\ result.log[3].lookaheadAfter = null
    /\ parser._lookahead = null

\* C19: when the left side of an assignment is neither an Identifier nor a
\* MemberExpression, parse fails with the error of the invalid assignment
\* target whatever text follows the operator.
InvalidTargetReportedFirst ==
    Parsed /\ program \in InvalidTargetTexts =>
        /\ Threw("SyntaxError")
        /\ result.thrown.message = "Invalid left-hand side in assignment expression"

\* 5 = @ fails in the _eat of the operator, which asks the Tokenizer for the
\* token after it, with the Tokenizer's error about @
LexicalErrorBeforeTargetCheck ==
    /\ Parsed
    /\ program = <<"5", " ", "=", " ", "@">>
    /\ Threw("SyntaxError")
    /\ result.thrown.message = "Unexpected token"
    /\ result.thrown.actual = <<"@">>
    /\ result.thrown.expected = nullType
    /\ result.log[Len(result.log)].tokenType = "SIMPLE_ASSIGN"
    /\ result.log[Len(result.log)].outcome = "lexer"

\* the Parser i is where its parse is after as many _eat calls on a Parser
\* at work alone, and ends with the same AST or the same error
InstanceAsLone(i, p, tk, lone, first) ==
    p.pc # "new" =>
        /\ tk._string = instances.texts[i]
        /\ p._string = instances.texts[i]
        /\ p.eaten <= Len(lone.st.log)
        /\ IF p.eaten = 0
           THEN /\ tk = first.tk
                /\ p._lookahead = IF IsNull(first.thrown) THEN first.token ELSE undefined
           ELSE /\ tk._cursor = lone.st.log[p.eaten].cursorAfter
                /\ p._lookahead = lone.st.log[p.eaten].lookaheadAfter
        /\ p.pc = "done" =>
              /\ p.eaten = Len(lone.st.log)
              /\ p.ret = lone.ret
              /\ p.thrown = lone.st.thrown

\* C20: two parses on two Parser objects, their calls of getNextToken taken
\* in any order and mixed with those of the runner's Tokenizer, each go
\* through the states of the parse run alone and end with its AST or error.
InstancesIndependent ==
    \A i \in Instances :
        InstanceAsLone(i, instances.parsers[i],
                       instances.heap[instances.parsers[i]._tokenizer],
                       parse(ParserNew, instances.texts[i]),
                       getNextToken(TokenizerInit(instances.texts[i])))

\* the parse of a = 5 ; has returned its Program while the parse of 5 = @ has
\* eaten one token and the runner's Tokenizer is in its loop
ParseEndedBetweenSteps ==
    /\ instances.texts = << Text(<<<<"a">>, <<"=">>, <<"5">>, <<";">>>>),
                            Text(<<<<"5">>, <<"=">>, <<"@">>>>) >>
    /\ instances.parsers[1].pc = "done"
    /\ instances.parsers[1].ret.type = "Program"
    /\ instances.parsers[1].eaten = 4
    /\ instances.parsers[2].pc = "parsing"
    /\ instances.parsers[2].eaten = 1
    /\ driver.pc = "loop"
    /\ Len(driver.printed) = 2

\* the calls of getNextToken the runner has made on its Tokenizer
getNextTokenCalls ==
    IF driver.pc \in {"loop", "thrown"} THEN Len(driver.printed) + 1 ELSE 0

\* those of them that returned a token
TokensReturned ==
    IF driver.pc = "loop" /\ ~IsNull(driver.token)
    THEN Len(driver.printed) + 1
    ELSE Len(driver.printed)

\* a Tokenizer that init has been called on
CursorWithinText(tk) ==
    /\ tk._string = program
    /\ 0 <= tk._cursor
    /\ tk._cursor <= Len(program)
    /\ hasMoreTokens(tk) <=> ~isEOF(tk)

\* the cursor of the runner's Tokenizer and of the Parser's, and those the
\* _eat calls of the parse went through
CursorsWithinText ==
    /\ driver.pc # "new" => CursorWithinText(tokenizer)
    /\ driver.pc = "init" => tokenizer._cursor = 0
    /\ Parsed =>
          /\ CursorWithinText(parser._tokenizer)
          /\ \A i \in DOMAIN result.log :
                /\ 0 <= result.log[i].cursor
                /\ result.log[i].cursor <= result.log[i].cursorAfter
                /\ result.log[i].cursorAfter <= Len(program)
                /\ result.log[i].outcome = "return" /\ ~IsNull(result.log[i].lookaheadAfter)
                      => result.log[i].cursor < result.log[i].cursorAfter

\* a call that returns a token moves the cursor forward, and a call made at
\* the end of the text returns null and leaves the cursor
CursorMovesForward ==
    driver.pc \in {"init", "loop"} /\ driver'.pc \in {"loop", "thrown"} =>
        /\ tokenizer._cursor <= tokenizer'._cursor
        /\ driver'.pc = "loop" /\ ~IsNull(driver'.token)
              => tokenizer._cursor < tokenizer'._cursor
        /\ isEOF(tokenizer)
              => /\ driver'.pc = "loop"
                 /\ IsNull(driver'.token)
                 /\ tokenizer' = tokenizer

CursorProgress == []CursorsWithinText /\ [][CursorMovesForward]_vars

\* C21 as it stands: the cursor stays within the text, init sets it to 0, a
\* call that returns a token moves it forward, a call at the end of the text
\* returns null and leaves it, hasMoreTokens is the negation of isEOF, and a
\* drain takes at most as many calls as the text has characters.
DrainWithinLengthCalls ==
    CursorProgress /\ [](getNextTokenCalls <= Len(program))

\* C21: the same, where at most as many calls as the text has characters
\* return a token, and a drain takes at most one call more.
DrainWithinLengthTokens ==
    /\ CursorProgress
    /\ [](TokensReturned <= Len(program) /\ getNextTokenCalls <= Len(program) + 1)

\* a+5 is drained by four calls, three tokens and the null
ThreeCharactersFourCalls ==
    /\ Drained
    /\ program = <<"a", "+", "5">>
    /\ Len(driver.printed) = 3
    /\ tokenizer._cursor = 3
    /\ getNextTokenCalls = 4

SameAsLone(lone) ==
    /\ result.ret = lone.ret
    /\ result.thrown = lone.st.thrown
    /\ result.log = lone.st.log
    /\ parser._string = program
    /\ parser._tokenizer = lone.st._tokenizer

\* C23: whatever the Parser has parsed before, and however those parses
\* ended, parse(s) returns the AST or raises the error that parse(s) of a new
\* Parser does, through the same _eat calls.
ParseForgetsHistory ==
    Parsed => SameAsLone(parse(ParserNew, program))

\* a Parser that a failed parse left with the lookahead 5 has parsed @: the
\* first getNextToken threw, as it does for a new Parser, and the lookahead
\* of the earlier parse is still there
ParsedAfterFailure ==
    /\ Parsed
    /\ program = <<"@">>
    /\ Threw("SyntaxError")
    /\ result.thrown.actual = <<"@">>
    /\ result.log = <<>>
    /\ parser._lookahead = [type |-> "NUMBER", value |-> <<"5">>]

\* the node is a CallExpression that is the object of a MemberExpression
CallAsObject(occurrence) ==
    /\ occurrence.node.type = "CallExpression"
    /\ occurrence.parent = "MemberExpression"
    /\ occurrence.field = "object"

\* C24: a . or [ right after the ) of a call that is not in parentheses of
\* its own makes parse fail with a SyntaxError about that token, wherever the
\* call stands; a call in parentheses is the object of the access; and in a
\* returned AST a CallExpression is the object of a MemberExpression only
\* for such a call in parentheses.
NoAccessAfterCall ==
    Parsed =>
        /\ program \in AccessAfterCallTexts =>
              /\ Threw("SyntaxError")
              /\ IsNull(result.ret)
              /\ result.thrown.message = "Unexpected token"
              /\ result.thrown.actual \in {<<".">>, <<"[">>}
        /\ \A c \in ParenthesizedCallCases \cup ClosedCallCases :
              program = c.text => Returned /\ result.ret = c.ast
        /\ Returned =>
              \A i \in DOMAIN ReturnedNodes :
                  CallAsObject(ReturnedNodes[i]) =>
                      program \in {c.text : c \in ParenthesizedCallCases}

\* f ( ) . x ; fails at the . where ExpressionStatement expects ;
AccessAfterCallRejected ==
    /\ Parsed
    /\ program = Text(<<<<"f">>, <<"(">>, <<")">>, <<".">>, <<"x">>, <<";">>>>)
    /\ Threw("SyntaxError")
    /\ result.thrown = SyntaxError("Unexpected token", <<".">>, ";")
    /\ Len(result.log) = 4

=============================================================================
